---- MODULE Spec2Model ----
(***************************************************************************)
(* A model of the layout and rendering core of geekmagic-hacs:             *)
(*   - emoji.segment_text            (text segmentation)                   *)
(*   - candlestick.aggregate_ohlc    (OHLC aggregation)                    *)
(*   - widgets.components            (measure / render of component trees) *)
(*   - Renderer.to_jpeg              (size-capped JPEG encoding)           *)
(* Each part has its own specification (SpecSeg, SpecOhlc, SpecLayout,     *)
(* SpecJpeg); the variables of the other parts stay at their idle values.  *)
(***************************************************************************)
EXTENDS Integers, Sequences, FiniteSets, TLC

VARIABLES
    \* segment_text
    text, i, current_text, current_emoji, segments, segpc,
    \* aggregate_ohlc
    timestamped_values, interval_seconds, candle_count, buckets, candles, ohlcpc,
    \* Renderer.to_jpeg
    quality, max_size, floor_size, current_quality, result, encodes, monotone, jpc,
    \* component tree: measure and render
    tree, box, measured, calls, laypc,
    \* StaticImage.render / Renderer.draw_image
    simage, imgbox, image_rect, drawn, imgpc,
    \* _load_font, _load_emoji_font, _load_mdi_font
    font_files, bad_size_error, font_call, font_loaded,
    \* Renderer.get_scaled_font / Renderer.fit_text_font
    bbox_table, fit_limits, font_cache, fit, fit_returned, looked_up, calls_left, fitpc,
    \* Renderer.dim_color / Renderer.blend_color
    color_in, color_call, color_out,
    \* scaling of data in draw_sparkline, CandlestickDisplay.render, GaugeWidget.render
    scale_data, gauge_range, scale_call, scale_out,
    \* the percent of gauge, progress and media widgets
    pct_in, pct_call, pct_out,
    \* widget objects across renders
    wconfig, widget, snapshot, wout,
    \* GeekMagicCoordinator and the preview camera
    options, layouts, current_screen, last_screen_change, clock, last_image, refresh_pc, update_result, camera_out,
    \* GeekMagicOptionsFlow and the config entry it edits
    entry_options, flow_step, flow_options, aliased, current_screen_index, current_slot, screen_config, current_widget_type, editing_screen, slot_forms

segVars  == <<text, i, current_text, current_emoji, segments, segpc>>
ohlcVars == <<timestamped_values, interval_seconds, candle_count, buckets, candles, ohlcpc>>
jpegVars == <<quality, max_size, floor_size, current_quality, result, encodes,
              monotone, jpc>>
layVars  == <<tree, box, measured, calls, laypc>>
imgVars  == <<simage, imgbox, image_rect, drawn, imgpc>>
fontVars == <<font_files, bad_size_error, font_call, font_loaded>>
fitVars == <<bbox_table, fit_limits, font_cache, fit, fit_returned, looked_up, calls_left, fitpc>>
colorVars == <<color_in, color_call, color_out>>
scaleVars == <<scale_data, gauge_range, scale_call, scale_out>>
pctVars == <<pct_in, pct_call, pct_out>>
widVars == <<wconfig, widget, snapshot, wout>>
coordVars == <<options, layouts, current_screen, last_screen_change, clock, last_image, refresh_pc, update_result, camera_out>>
flowVars == <<entry_options, flow_step, flow_options, aliased, current_screen_index, current_slot, screen_config, current_widget_type, editing_screen, slot_forms>>
vars     == <<segVars, ohlcVars, jpegVars, layVars, imgVars, fontVars, fitVars, colorVars, scaleVars, pctVars, widVars, coordVars, flowVars>>

\* The variables each part leaves alone
notSeg  == <<ohlcVars, jpegVars, layVars, imgVars, fontVars, fitVars, colorVars, scaleVars, pctVars, widVars, coordVars, flowVars>>
notOhlc == <<segVars, jpegVars, layVars, imgVars, fontVars, fitVars, colorVars, scaleVars, pctVars, widVars, coordVars, flowVars>>
notJpeg == <<segVars, ohlcVars, layVars, imgVars, fontVars, fitVars, colorVars, scaleVars, pctVars, widVars, coordVars, flowVars>>
notLay  == <<segVars, ohlcVars, jpegVars, imgVars, fontVars, fitVars, colorVars, scaleVars, pctVars, widVars, coordVars, flowVars>>
notImg  == <<segVars, ohlcVars, jpegVars, layVars, fontVars, fitVars, colorVars, scaleVars, pctVars, widVars, coordVars, flowVars>>
notFont == <<segVars, ohlcVars, jpegVars, layVars, imgVars, fitVars, colorVars, scaleVars, pctVars, widVars, coordVars, flowVars>>
notFit == <<segVars, ohlcVars, jpegVars, layVars, imgVars, fontVars, colorVars, scaleVars, pctVars, widVars, coordVars, flowVars>>
notColor == <<segVars, ohlcVars, jpegVars, layVars, imgVars, fontVars, fitVars, scaleVars, pctVars, widVars, coordVars, flowVars>>
notScale == <<segVars, ohlcVars, jpegVars, layVars, imgVars, fontVars, fitVars, colorVars, pctVars, widVars, coordVars, flowVars>>
notPct == <<segVars, ohlcVars, jpegVars, layVars, imgVars, fontVars, fitVars, colorVars, scaleVars, widVars, coordVars, flowVars>>
notWid == <<segVars, ohlcVars, jpegVars, layVars, imgVars, fontVars, fitVars, colorVars, scaleVars, pctVars, coordVars, flowVars>>
notCoord == <<segVars, ohlcVars, jpegVars, layVars, imgVars, fontVars, fitVars, colorVars, scaleVars, pctVars, widVars, flowVars>>
notFlow == <<segVars, ohlcVars, jpegVars, layVars, imgVars, fontVars, fitVars, colorVars, scaleVars, pctVars, widVars, coordVars>>

\* ------------------------------------------------------------------------
\* Generic helpers
\* ------------------------------------------------------------------------
Min(a, b) == IF a <= b THEN a ELSE b
Max(a, b) == IF a >= b THEN a ELSE b

\* All sequences over S of length 0..n
SeqsUpTo(S, n) == UNION {[1..k -> S] : k \in 0..n}

\* F at the value of e; e is evaluated once
With(e, F(_)) == CHOOSE r \in {F(v) : v \in {e}} : TRUE

\* The sequence s, as an explicit tuple
Tuple(s) == s \o <<>>

RECURSIVE Concat(_)
\* Concatenation of a sequence of sequences, in order
Concat(ss) == IF ss = <<>> THEN <<>> ELSE Head(ss) \o Concat(Tail(ss))

\* ========================================================================
\* emoji.py : segment_text
\* ========================================================================

\* Core emoji codepoint ranges (emoji.py _EMOJI_RANGES), inclusive pairs.
EMOJI_RANGES ==
    << <<127744, 129535>>, <<129536, 129647>>, <<129648, 129791>>,
       <<9728, 9983>>, <<9984, 10175>>, <<8986, 8987>>, <<9193, 9203>>,
       <<9208, 9210>>, <<9642, 9643>>, <<9654, 9654>>, <<9664, 9664>>,
       <<9723, 9726>>, <<9748, 9749>>, <<9800, 9811>>, <<9855, 9855>>,
       <<9875, 9875>>, <<9889, 9889>>, <<9898, 9899>>, <<9917, 9918>>,
       <<9924, 9925>>, <<9934, 9934>>, <<9940, 9940>>, <<9962, 9962>>,
       <<9970, 9971>>, <<9973, 9973>>, <<9978, 9978>>, <<9981, 9981>>,
       <<9986, 9986>>, <<9989, 9989>>, <<9992, 9997>>, <<9999, 9999>>,
       <<10002, 10002>>, <<10004, 10004>>, <<10006, 10006>>, <<10013, 10013>>,
       <<10017, 10017>>, <<10024, 10024>>, <<10035, 10036>>, <<10052, 10052>>,
       <<10055, 10055>>, <<10060, 10060>>, <<10062, 10062>>, <<10067, 10069>>,
       <<10071, 10071>>, <<10083, 10084>>, <<10133, 10135>>, <<10145, 10145>>,
       <<10160, 10160>>, <<10175, 10175>>, <<10548, 10549>>, <<11013, 11015>>,
       <<11035, 11036>>, <<11088, 11088>>, <<11093, 11093>>, <<12336, 12336>>,
       <<12349, 12349>>, <<12951, 12951>>, <<12953, 12953>>, <<126980, 126980>>,
       <<127183, 127183>>, <<127344, 127345>>, <<127358, 127359>>,
       <<127374, 127374>>, <<127377, 127386>>, <<127456, 127487>>,
       <<127489, 127490>>, <<127514, 127514>>, <<127535, 127535>>,
       <<127538, 127546>>, <<127568, 127569>> >>

\* _EMOJI_CODEPOINTS membership
InEmojiCodepoints(cp) ==
    \E k \in DOMAIN EMOJI_RANGES : EMOJI_RANGES[k][1] <= cp /\ cp <= EMOJI_RANGES[k][2]

\* _SKIN_TONE_MODIFIERS = set(range(0x1F3FB, 0x1F400))
InSkinToneModifiers(cp) == 127995 <= cp /\ cp < 128000

VARIATION_SELECTOR_TEXT == 65038
VARIATION_SELECTOR_EMOJI == 65039
ZWJ == 8205
COMBINING_ENCLOSING_KEYCAP == 8419

\* _KEYCAP_BASE = {'#', '*'} | '0'..'9'
InKeycapBase(cp) == cp = 35 \/ cp = 42 \/ (48 <= cp /\ cp <= 57)

\* Regional indicator test used inline by segment_text (0x1F1E0..0x1F1FF)
IsRegionalIndicator(cp) == cp >= 127456 /\ cp <= 127487

is_emoji_codepoint(cp) ==
    \/ InEmojiCodepoints(cp)
    \/ InSkinToneModifiers(cp)
    \/ cp = VARIATION_SELECTOR_EMOJI

\* text[k] with the code's 0-based index
At(t, k) == t[k + 1]

\* text[a:b] (0-based, b exclusive)
Slice(t, a, b) == [k \in 1..(b - a) |-> t[a + k]]

\* A TextSegment(text, segment_type)
TextSegment(t, ty) == [text |-> t, segment_type |-> ty]

RECURSIVE CollectSequence_NoSkinTone(_, _, _, _)
\* Mutant of CollectSequence: a skin-tone modifier ends the sequence
CollectSequence_NoSkinTone(t, j, em, codepoint) ==
    IF ~(j < Len(t)) THEN [emoji |-> em, next |-> j]
    ELSE LET next_codepoint == At(t, j) IN
         IF next_codepoint = ZWJ
         THEN IF j + 1 < Len(t)
              THEN CollectSequence_NoSkinTone(t, j + 2, em \o <<At(t, j), At(t, j + 1)>>,
                                              codepoint)
              ELSE CollectSequence_NoSkinTone(t, j + 1, Append(em, At(t, j)), codepoint)
         ELSE IF next_codepoint = VARIATION_SELECTOR_EMOJI
         THEN CollectSequence_NoSkinTone(t, j + 1, Append(em, At(t, j)), codepoint)
         ELSE IF next_codepoint = VARIATION_SELECTOR_TEXT
         THEN CollectSequence_NoSkinTone(t, j + 1, em, codepoint)
         ELSE IF IsRegionalIndicator(next_codepoint) /\ IsRegionalIndicator(codepoint)
         THEN CollectSequence_NoSkinTone(t, j + 1, Append(em, At(t, j)), codepoint)
         ELSE [emoji |-> em, next |-> j]

RECURSIVE CollectSequence(_, _, _, _)
\* The inner while loop of segment_text: starting at index j, collect the
\* modifiers / ZWJ / variation selectors / regional indicators that continue
\* the sequence begun by `codepoint`; returns the emoji text and the next index.
CollectSequence(t, j, em, codepoint) ==
    IF ~(j < Len(t)) THEN [emoji |-> em, next |-> j]
    ELSE LET next_codepoint == At(t, j) IN
         IF next_codepoint = ZWJ
         THEN IF j + 1 < Len(t)
              THEN CollectSequence(t, j + 2, em \o <<At(t, j), At(t, j + 1)>>, codepoint)
              ELSE CollectSequence(t, j + 1, Append(em, At(t, j)), codepoint)
         ELSE IF InSkinToneModifiers(next_codepoint)
         THEN CollectSequence(t, j + 1, Append(em, At(t, j)), codepoint)
         ELSE IF next_codepoint = VARIATION_SELECTOR_EMOJI
         THEN CollectSequence(t, j + 1, Append(em, At(t, j)), codepoint)
         ELSE IF next_codepoint = VARIATION_SELECTOR_TEXT
         THEN CollectSequence(t, j + 1, em, codepoint)
         ELSE IF IsRegionalIndicator(next_codepoint) /\ IsRegionalIndicator(codepoint)
         THEN CollectSequence(t, j + 1, Append(em, At(t, j)), codepoint)
         ELSE [emoji |-> em, next |-> j]

\* segments with the pending regular text flushed
FlushText(segs, ct) == IF ct # <<>> THEN Append(segs, TextSegment(ct, "TEXT")) ELSE segs

\* Representative codepoints of every class segment_text distinguishes:
\* 'a', '1', U+1F44B, U+1F1FA, ZWJ, U+1F3FD, U+FE0F, U+FE0E, U+20E3
Alphabet == {97, 49, 128075, 127482, ZWJ, 127997,
             VARIATION_SELECTOR_EMOJI, VARIATION_SELECTOR_TEXT,
             COMBINING_ENCLOSING_KEYCAP}

MaxTextLen == 4

SegIdle ==
    /\ text = <<>> /\ i = 0 /\ current_text = <<>> /\ current_emoji = <<>>
    /\ segments = <<>> /\ segpc = "idle"

\* segment_text(text): state at entry
SegInit ==
    /\ text \in SeqsUpTo(Alphabet, MaxTextLen)
    /\ i = 0 /\ current_text = <<>> /\ current_emoji = <<>>
    /\ segments = <<>> /\ segpc = "loop"

\* if not text: return []
SegEmpty ==
    /\ segpc = "loop" /\ text = <<>>
    /\ segments' = <<>>
    /\ segpc' = "done"
    /\ UNCHANGED <<text, i, current_text, current_emoji>>
    /\ UNCHANGED notSeg

\* loop body, branch `if is_emoji_codepoint(codepoint)`
SegEmoji ==
    /\ segpc = "loop" /\ i < Len(text)
    /\ is_emoji_codepoint(At(text, i))
    /\ LET r == CollectSequence(text, i + 1, <<At(text, i)>>, At(text, i)) IN
       /\ segments' = Append(FlushText(segments, current_text),
                             TextSegment(r.emoji, "EMOJI"))
       /\ i' = r.next
    /\ current_text' = <<>>
    /\ current_emoji' = <<>>
    /\ UNCHANGED <<text, segpc>>
    /\ UNCHANGED notSeg

\* loop body, branch `elif codepoint in _KEYCAP_BASE and i + 2 < len(text)`
SegKeycap ==
    /\ segpc = "loop" /\ i < Len(text)
    /\ ~is_emoji_codepoint(At(text, i))
    /\ InKeycapBase(At(text, i)) /\ i + 2 < Len(text)
    /\ IF /\ At(text, i + 1) = VARIATION_SELECTOR_EMOJI
          /\ At(text, i + 2) = COMBINING_ENCLOSING_KEYCAP
       THEN /\ segments' = Append(FlushText(segments, current_text),
                                  TextSegment(Slice(text, i, i + 3), "EMOJI"))
            /\ current_text' = <<>>
            /\ current_emoji' = Slice(text, i, i + 3)
            /\ i' = i + 3
       ELSE /\ current_text' = Append(current_text, At(text, i))
            /\ i' = i + 1
            /\ UNCHANGED <<segments, current_emoji>>
    /\ UNCHANGED <<text, segpc>>
    /\ UNCHANGED notSeg

\* loop body, branch `else` (regular text character)
SegPlain ==
    /\ segpc = "loop" /\ i < Len(text)
    /\ ~is_emoji_codepoint(At(text, i))
    /\ ~(InKeycapBase(At(text, i)) /\ i + 2 < Len(text))
    /\ current_text' = Append(current_text, At(text, i))
    /\ i' = i + 1
    /\ UNCHANGED <<text, current_emoji, segments, segpc>>
    /\ UNCHANGED notSeg

\* after the loop: flush remaining text and emoji, return segments
SegFlush ==
    /\ segpc = "loop" /\ text # <<>> /\ ~(i < Len(text))
    /\ LET s1 == FlushText(segments, current_text) IN
       segments' = IF current_emoji # <<>>
                   THEN Append(s1, TextSegment(current_emoji, "EMOJI"))
                   ELSE s1
    /\ segpc' = "done"
    /\ UNCHANGED <<text, i, current_text, current_emoji>>
    /\ UNCHANGED notSeg

\* ========================================================================
\* widgets/candlestick.py : aggregate_ohlc
\* ========================================================================

\* int(a / b) for b > 0: truncation toward zero
TruncDiv(a, b) == IF a >= 0 THEN a \div b ELSE -((-a) \div b)

\* end_ts = timestamped_values[-1][0]; start_ts = end_ts - candle_count * interval
StartTs(tv, iv, n) == tv[Len(tv)][1] - (n * iv)

\* Mutant of BucketIdx: the clamp to the last bucket is missing
BucketIdx_NoClamp(ts, start, iv, n) == TruncDiv(ts - start, iv)

\* bucket_idx = min(int((ts - start_ts) / interval_seconds), candle_count - 1)
BucketIdx(ts, start, iv, n) == Min(TruncDiv(ts - start, iv), n - 1)

RECURSIVE FillBuckets(_, _, _, _, _, _)
\* The bucketing loop: samples k..Len(tv) appended to their bucket in input
\* order; b maps bucket index 0..n-1 to the list of values collected so far.
FillBuckets(tv, k, start, iv, n, b) ==
    IF k > Len(tv) THEN b
    ELSE LET ts == tv[k][1]
             value == tv[k][2]
             idx == BucketIdx(ts, start, iv, n)
         IN IF ts < start THEN FillBuckets(tv, k + 1, start, iv, n, b)
            ELSE IF idx >= 0
                 THEN FillBuckets(tv, k + 1, start, iv, n,
                                  [b EXCEPT ![idx] = Append(@, value)])
                 ELSE FillBuckets(tv, k + 1, start, iv, n, b)

RECURSIVE FirstNonEmpty(_, _, _)
\* "Find first non-empty bucket to seed last_close": <<v>> or <<>> (None)
FirstNonEmpty(b, k, n) ==
    IF k >= n THEN <<>>
    ELSE IF b[k] # <<>> THEN <<b[k][1]>>
    ELSE FirstNonEmpty(b, k + 1, n)

RECURSIVE SeedBefore_Earliest(_, _, _, _)
\* Mutant of SeedBefore: keeps the earliest sample before the window, not the
\* latest one
SeedBefore_Earliest(tv, k, start, lc) ==
    IF k > Len(tv) THEN lc
    ELSE IF tv[k][1] < start THEN tv[k][2]
    ELSE lc

RECURSIVE SeedBefore(_, _, _, _)
\* "Also check for values before start_ts to seed last_close"; stops at the
\* first sample that is not before the window.
SeedBefore(tv, k, start, lc) ==
    IF k > Len(tv) THEN lc
    ELSE IF tv[k][1] < start THEN SeedBefore(tv, k + 1, start, tv[k][2])
    ELSE lc

RECURSIVE SeqMax(_)
SeqMax(s) == IF Len(s) = 1 THEN s[1] ELSE Max(s[1], SeqMax(Tail(s)))

RECURSIVE SeqMin(_)
SeqMin(s) == IF Len(s) = 1 THEN s[1] ELSE Min(s[1], SeqMin(Tail(s)))

RECURSIVE EmitCandles_SkipEmpty(_, _, _, _, _)
\* Mutant of EmitCandles: an empty bucket emits no candle
EmitCandles_SkipEmpty(b, k, n, lc, out) ==
    IF k >= n THEN out
    ELSE IF b[k] # <<>>
         THEN LET values == b[k]
                  c == values[Len(values)]
              IN EmitCandles_SkipEmpty(b, k + 1, n, c,
                     Append(out, <<values[1], SeqMax(values), SeqMin(values), c>>))
         ELSE EmitCandles_SkipEmpty(b, k + 1, n, lc, out)

RECURSIVE EmitCandles(_, _, _, _, _)
\* The final loop over buckets, carrying last_close
EmitCandles(b, k, n, lc, out) ==
    IF k >= n THEN out
    ELSE IF b[k] # <<>>
         THEN LET values == b[k]
                  c == values[Len(values)]
              IN EmitCandles(b, k + 1, n, c,
                     Append(out, <<values[1], SeqMax(values), SeqMin(values), c>>))
         ELSE EmitCandles(b, k + 1, n, lc, Append(out, <<lc, lc, lc, lc>>))

MaxSamples == 3
MaxTs == 4
MaxVal == 2
MaxInterval == 2
MaxCount == 3

\* (timestamp, value) samples
Samples == (0..MaxTs) \X (1..MaxVal)

\* "List of (timestamp, value) tuples, sorted by time"
IsTimeOrdered(tv) == \A k \in 1..(Len(tv) - 1) : tv[k][1] <= tv[k + 1][1]

OhlcIdle ==
    /\ timestamped_values = <<>> /\ interval_seconds = 1 /\ candle_count = 0
    /\ buckets = <<>> /\ candles = <<>> /\ ohlcpc = "idle"

\* aggregate_ohlc(timestamped_values, interval_seconds, candle_count): entry
OhlcInit ==
    /\ timestamped_values \in {tv \in SeqsUpTo(Samples, MaxSamples) : IsTimeOrdered(tv)}
    /\ interval_seconds \in 1..MaxInterval
    /\ candle_count \in 0..MaxCount
    /\ buckets = <<>> /\ candles = <<>> /\ ohlcpc = "entry"

\* if not timestamped_values: return []
OhlcEmpty ==
    /\ ohlcpc = "entry" /\ timestamped_values = <<>>
    /\ candles' = <<>>
    /\ ohlcpc' = "done"
    /\ UNCHANGED <<timestamped_values, interval_seconds, candle_count, buckets>>
    /\ UNCHANGED notOhlc

\* "Bucket values into candles"
OhlcBucket ==
    /\ ohlcpc = "entry" /\ timestamped_values # <<>>
    /\ buckets' = FillBuckets(timestamped_values, 1,
                      StartTs(timestamped_values, interval_seconds, candle_count),
                      interval_seconds, candle_count,
                      [k \in 0..(candle_count - 1) |-> <<>>])
    /\ ohlcpc' = "bucketed"
    /\ UNCHANGED <<timestamped_values, interval_seconds, candle_count, candles>>
    /\ UNCHANGED notOhlc

\* if last_close is None: return []
OhlcNoData ==
    /\ ohlcpc = "bucketed"
    /\ FirstNonEmpty(buckets, 0, candle_count) = <<>>
    /\ candles' = <<>>
    /\ ohlcpc' = "done"
    /\ UNCHANGED <<timestamped_values, interval_seconds, candle_count, buckets>>
    /\ UNCHANGED notOhlc

\* seed last_close, convert buckets to OHLC tuples, return candles
OhlcEmit ==
    /\ ohlcpc = "bucketed"
    /\ FirstNonEmpty(buckets, 0, candle_count) # <<>>
    /\ LET seed0 == FirstNonEmpty(buckets, 0, candle_count)[1]
           seed == SeedBefore(timestamped_values, 1,
                       StartTs(timestamped_values, interval_seconds, candle_count),
                       seed0)
       IN candles' = EmitCandles(buckets, 0, candle_count, seed, <<>>)
    /\ ohlcpc' = "done"
    /\ UNCHANGED <<timestamped_values, interval_seconds, candle_count, buckets>>
    /\ UNCHANGED notOhlc

\* ========================================================================
\* widgets/components.py : component trees, measure
\* ========================================================================
\* A component is a record tagged with its class name in `kind`.  An optional
\* field (`int | None`) holds <<>> for None and <<v>> for the value v.  A None
\* entry of a children list is the record NoneC.

NoneC == [kind |-> "None"]

\* Text: what measure needs of it is the size ctx.get_text_size reports for
\* its text and font, which does not depend on the box offered.
Text(text_w, text_h) == [kind |-> "Text", text_w |-> text_w, text_h |-> text_h]

ICON_MIN_SIZE == 12
ICON_MAX_SIZE == 32
Icon(size) == [kind |-> "Icon", size |-> size,
               min_size |-> ICON_MIN_SIZE, max_size |-> ICON_MAX_SIZE]

Bar(height) == [kind |-> "Bar", height |-> height]
Ring == [kind |-> "Ring"]
Arc == [kind |-> "Arc"]
Sparkline == [kind |-> "Sparkline"]
Panel(child) == [kind |-> "Panel", child |-> child]
Spacer(min_size) == [kind |-> "Spacer", min_size |-> min_size]
Empty == [kind |-> "Empty"]

Row(children, gap, align, justify, padding) ==
    [kind |-> "Row", children |-> children, gap |-> gap, align |-> align,
     justify |-> justify, padding |-> padding]
Column(children, gap, align, justify, padding) ==
    [kind |-> "Column", children |-> children, gap |-> gap, align |-> align,
     justify |-> justify, padding |-> padding]
Stack(children) == [kind |-> "Stack", children |-> children]
Adaptive(children, gap, padding) ==
    [kind |-> "Adaptive", children |-> children, gap |-> gap, padding |-> padding]
Center(child) == [kind |-> "Center", child |-> child]
Padding(child, all, horizontal, vertical, top, right, bottom, left) ==
    [kind |-> "Padding", child |-> child, all |-> all, horizontal |-> horizontal,
     vertical |-> vertical, top |-> top, right |-> right, bottom |-> bottom,
     left |-> left]

\* Mutant of Icon_calculate_size: the fixed size is ignored
Icon_calculate_size_NoFixed(c, available) ==
    Max(c.min_size, Min(c.max_size, available))

\* Icon._calculate_size
Icon_calculate_size(c, available) ==
    IF c.size # <<>> THEN c.size[1]
    ELSE Max(c.min_size, Min(c.max_size, available))

\* int(max_height * 0.15)
Percent15(h) == TruncDiv(15 * h, 100)

BAR_MIN_HEIGHT == 6

\* Bar.measure: h = self.height or max(6, int(max_height * 0.15))
BarHeight(c, max_height) ==
    IF c.height # <<>> /\ c.height[1] # 0 THEN c.height[1]
    ELSE Max(BAR_MIN_HEIGHT, Percent15(max_height))

\* first present of a, b, else c  (x if x is not None else (y if y is not None else z))
Coalesce(a, b, c) == IF a # <<>> THEN a[1] ELSE IF b # <<>> THEN b[1] ELSE c

\* Padding._get_padding: <<top, right, bottom, left>>
Padding_get_padding(c) ==
    << Coalesce(c.top, c.vertical, c.all), Coalesce(c.right, c.horizontal, c.all),
       Coalesce(c.bottom, c.vertical, c.all), Coalesce(c.left, c.horizontal, c.all) >>

\* [c for c in self.children if c is not None]
Present(children) == SelectSeq(children, LAMBDA c : c.kind # "None")

\* The children a container measures and renders, None entries included
ChildrenOf(c) ==
    CASE c.kind \in {"Row", "Column", "Stack", "Adaptive"} -> c.children
      [] c.kind \in {"Center", "Padding", "Panel"} -> <<c.child>>
      [] OTHER -> <<>>

\* The (max_width, max_height) a container's measure passes to its children
ChildBounds(c, max_width, max_height) ==
    CASE c.kind \in {"Row", "Adaptive"} -> <<max_width, max_height - c.padding * 2>>
      [] c.kind = "Column" -> <<max_width - c.padding * 2, max_height>>
      [] c.kind = "Padding" ->
            LET p == Padding_get_padding(c)
            IN <<Max(0, max_width - p[4] - p[2]), Max(0, max_height - p[1] - p[3])>>
      [] OTHER -> <<max_width, max_height>>

RECURSIVE RowMeasureLoop(_, _, _, _, _, _)
RECURSIVE ColumnMeasureLoop(_, _, _, _, _, _)
RECURSIVE StackMeasureLoop(_, _, _, _, _)

\* The loop of Row.measure over enumerate(self.children), from index idx
\* (1-based here, so the code's `i > 0` is idx > 1); ms[idx] is what
\* children[idx].measure returned.  Returns <<total_width, max_h>>.
RowMeasureLoop(children, ms, idx, gap, total_width, max_h) ==
    IF idx > Len(children) THEN <<total_width, max_h>>
    ELSE IF children[idx].kind = "None"
    THEN RowMeasureLoop(children, ms, idx + 1, gap, total_width, max_h)
    ELSE RowMeasureLoop(children, ms, idx + 1, gap,
                        (IF idx > 1 THEN total_width + gap ELSE total_width) + ms[idx][1],
                        Max(max_h, ms[idx][2]))

\* The loop of Column.measure; returns <<total_height, max_w>>.
ColumnMeasureLoop(children, ms, idx, gap, total_height, max_w) ==
    IF idx > Len(children) THEN <<total_height, max_w>>
    ELSE IF children[idx].kind = "None"
    THEN ColumnMeasureLoop(children, ms, idx + 1, gap, total_height, max_w)
    ELSE ColumnMeasureLoop(children, ms, idx + 1, gap,
                           (IF idx > 1 THEN total_height + gap ELSE total_height) + ms[idx][2],
                           Max(max_w, ms[idx][1]))

\* The loop of Stack.measure; returns <<max_w, max_h>>.
StackMeasureLoop(children, ms, idx, max_w, max_h) ==
    IF idx > Len(children) THEN <<max_w, max_h>>
    ELSE IF children[idx].kind = "None"
    THEN StackMeasureLoop(children, ms, idx + 1, max_w, max_h)
    ELSE StackMeasureLoop(children, ms, idx + 1,
                          Max(max_w, ms[idx][1]), Max(max_h, ms[idx][2]))

\* Row.measure, given its children's measures ms
RowMeasure(c, ms, max_width, max_height) ==
    LET r == RowMeasureLoop(c.children, ms, 1, c.gap, c.padding * 2, 0)
    IN << Min(r[1], max_width), Min(r[2] + c.padding * 2, max_height) >>

\* Column.measure, given its children's measures ms
ColumnMeasure(c, ms, max_width, max_height) ==
    LET r == ColumnMeasureLoop(c.children, ms, 1, c.gap, c.padding * 2, 0)
    IN << Min(r[2] + c.padding * 2, max_width), Min(r[1], max_height) >>

\* Mutant of PaddingMeasure: the padding is not added to the child's size
PaddingMeasure_Inner(c, ms) == ms[1]

\* Padding.measure, given its child's measure ms[1]
PaddingMeasure(c, ms) ==
    LET p == Padding_get_padding(c)
    IN << ms[1][1] + p[4] + p[2], ms[1][2] + p[1] + p[3] >>

\* What measure returns for c, given the measures ms of ChildrenOf(c)
MeasureOf(c, ms, max_width, max_height) ==
    CASE c.kind = "Text" -> <<c.text_w, c.text_h>>
      [] c.kind = "Icon" ->
            LET size == Icon_calculate_size(c, Min(max_width, max_height))
            IN <<size, size>>
      [] c.kind = "Bar" -> <<max_width, BarHeight(c, max_height)>>
      [] c.kind \in {"Ring", "Arc"} ->
            <<Min(max_width, max_height), Min(max_width, max_height)>>
      [] c.kind = "Sparkline" -> <<max_width, max_height>>
      [] c.kind = "Panel" ->
            IF c.child.kind # "None" THEN ms[1] ELSE <<max_width, max_height>>
      [] c.kind = "Spacer" -> <<c.min_size, c.min_size>>
      [] c.kind = "Empty" -> <<0, 0>>
      [] c.kind = "Row" -> RowMeasure(c, ms, max_width, max_height)
      [] c.kind = "Column" -> ColumnMeasure(c, ms, max_width, max_height)
      [] c.kind = "Stack" -> StackMeasureLoop(c.children, ms, 1, 0, 0)
      [] c.kind = "Adaptive" ->
            RowMeasure(Row(c.children, c.gap, "center", "space-between", c.padding),
                       ms, max_width, max_height)
      [] c.kind = "Center" -> ms[1]
      [] c.kind = "Padding" -> PaddingMeasure(c, ms)

RECURSIVE Measure(_, _, _)
\* Component.measure(ctx, max_width, max_height) -> <<width, height>>
Measure(c, max_width, max_height) ==
    LET kids == ChildrenOf(c)
        b == ChildBounds(c, max_width, max_height)
    IN MeasureOf(c,
                 [k \in 1..Len(kids) |->
                     IF kids[k].kind = "None" THEN <<0, 0>>
                     ELSE Measure(kids[k], b[1], b[2])],
                 max_width, max_height)

\* ========================================================================
\* widgets/components.py : render
\* ========================================================================
\* Row.render and Column.render hand the arrangement of their children to a
\* flexbox engine (stretchable.Node(...).compute_layout()).  FlexBoxes states
\* what that engine computes for the node trees these two methods build: one
\* single-line, non-wrapping flex container of definite size whose items are
\* leaves with definite sizes (flex_shrink 1, flex_grow 0) or, for a Spacer,
\* an auto main size with flex_grow 1; the resulting boxes are rounded to the
\* pixel grid.  It is defined for containers and items of non-negative size.

\* _to_justify / _to_align: unknown strings fall back to START / CENTER
ToJustify(j) ==
    IF j \in {"start", "center", "end", "space-between", "space-around"} THEN j
    ELSE "start"
ToAlign(a) == IF a \in {"start", "center", "end", "stretch"} THEN a ELSE "center"

\* Mutant of FlexItem: the Spacer node does not grow
FlexItem_NoGrow(child, cw, ch, align, dir) ==
    IF child.kind = "Spacer" THEN [basis |-> 0, crossPct |-> TRUE, cross |-> 0, grow |-> 0]
    ELSE IF align = "stretch"
    THEN [basis |-> IF dir = "row" THEN cw ELSE ch, crossPct |-> TRUE, cross |-> 0, grow |-> 0]
    ELSE [basis |-> IF dir = "row" THEN cw ELSE ch, crossPct |-> FALSE,
          cross |-> IF dir = "row" THEN ch ELSE cw, grow |-> 0]

\* The Node that Row.render (dir = "row") / Column.render (dir = "column")
\* adds for a child measured (cw, ch): its main-axis size (`basis`, 0 for the
\* Spacer's AUTO), its cross-axis size (100% of the container when crossPct)
\* and its flex_grow.
FlexItem(child, cw, ch, align, dir) ==
    IF child.kind = "Spacer" THEN [basis |-> 0, crossPct |-> TRUE, cross |-> 0, grow |-> 1]
    ELSE IF align = "stretch"
    THEN [basis |-> IF dir = "row" THEN cw ELSE ch, crossPct |-> TRUE, cross |-> 0, grow |-> 0]
    ELSE [basis |-> IF dir = "row" THEN cw ELSE ch, crossPct |-> FALSE,
          cross |-> IF dir = "row" THEN ch ELSE cw, grow |-> 0]

\* The items of the container: each present child measured against the inner box
FlexItems(children, align, dir, inner_w, inner_h) ==
    [k \in 1..Len(children) |->
        LET m == Measure(children[k], inner_w, inner_h)
        IN FlexItem(children[k], m[1], m[2], align, dir)]

RECURSIVE SumOver(_, _)
\* Sum of f[1..n]
SumOver(f, n) == IF n = 0 THEN 0 ELSE f[n] + SumOver(f, n - 1)

\* num/den rounded to the nearest integer, halves away from zero (den > 0)
Round(num, den) ==
    IF num >= 0 THEN (2 * num + den) \div (2 * den)
    ELSE -((2 * (-num) + den) \div (2 * den))

\* Lengths on the main axis are kept as numerators over a common denominator.

\* Flexing (grow / shrink) of the items of a container `main` long: the
\* denominator d and each item's main size over d, given the sums of the
\* items' bases and flex_grow factors.
FlexSizes(main, gap, items, bases, grows) ==
    LET n == Len(items)
        free == main - gap * (n - 1) - bases
    IN IF free > 0 /\ grows > 0
       THEN [d |-> grows,
             sized |-> Tuple([k \in 1..n |->
                                items[k].basis * grows + items[k].grow * free])]
       ELSE IF free < 0 /\ bases > 0
       THEN [d |-> bases,
             sized |-> Tuple([k \in 1..n |->
                                items[k].basis * Max(0, main - gap * (n - 1))])]
       ELSE [d |-> 1, sized |-> Tuple([k \in 1..n |-> items[k].basis])]

\* justify_content: offset of the first item and extra space between
\* neighbours, over d * j, when the flexed sizes sum to used / d
FlexOffsets(main, gap, justify, n, d, j, used) ==
    LET rest == ((main - gap * (n - 1)) * d - used) * j
    IN [first |-> CASE justify = "end" -> rest
                    [] justify = "center" -> rest \div 2
                    [] justify = "space-around" ->
                           IF rest >= 0 THEN rest \div (2 * n) ELSE rest \div 2
                    [] OTHER -> 0,
        between |-> CASE justify = "space-between" -> Max(0, rest) \div Max(1, n - 1)
                      [] justify = "space-around" -> Max(0, rest) \div n
                      [] OTHER -> 0]

\* The content box <<main pos, cross pos, main size, cross size>> of item k:
\* sized[k] / d long, after the first k - 1 items, gaps and offsets; across,
\* placed by align_items.  Boxes are rounded to the pixel grid.
FlexBox(k, cross, gap, align, items, d, j, sized, off) ==
    LET \* start on the main axis, over d * j
        pos == off.first + SumOver(sized, k - 1) * j
               + (k - 1) * (gap * d * j + off.between)
        csize == IF items[k].crossPct THEN cross ELSE items[k].cross
        \* start on the cross axis, over 2
        cpos == CASE align = "center" -> cross - csize
                  [] align = "end" -> 2 * (cross - csize)
                  [] OTHER -> 0
    IN << Round(pos, d * j),
          Round(cpos, 2),
          Round(pos + sized[k] * j, d * j) - Round(pos, d * j),
          Round(cpos + 2 * csize, 2) - Round(cpos, 2) >>

\* The content boxes, relative to the container, of the items of a flex
\* container of size main x cross (main axis first).
FlexBoxes(main, cross, gap, justify, align, items) ==
    LET n == Len(items)
        j == 2 * n * Max(1, n - 1)
    IN With(FlexSizes(main, gap, items,
                      SumOver([k \in 1..n |-> items[k].basis], n),
                      SumOver([k \in 1..n |-> items[k].grow], n)),
            LAMBDA sz :
              With(FlexOffsets(main, gap, justify, n, sz.d, j, SumOver(sz.sized, n)),
                   LAMBDA off :
                     [k \in 1..n |->
                        FlexBox(k, cross, gap, align, items, sz.d, j, sz.sized, off)]))

\* One render call: the component's class, the box it received and the box
\* its caller had received (its own box for the root call).  For a Row or
\* Column, `justify` and `align` are its settings, and `defined` tells whether
\* the flex container and all its items have non-negative sizes.
Call(c, x, y, width, height, parent, defined) ==
    [kind |-> c.kind, box |-> <<x, y, width, height>>, parent |-> parent,
     justify |-> IF c.kind \in {"Row", "Column"} THEN c.justify ELSE "",
     align |-> IF c.kind \in {"Row", "Column"} THEN c.align ELSE "",
     defined |-> defined]

\* Mutant of AdaptiveFits: strict comparison
AdaptiveFits_Strict(total_width, inner_w) == total_width < inner_w

\* Adaptive.render: `if total_width <= inner_w`
AdaptiveFits(total_width, inner_w) == total_width <= inner_w

\* Mutant of CenterBox: the child gets the whole box
CenterBox_Whole(x, y, width, height, cw, ch) == <<x, y, width, height>>

\* Center.render: the box handed to the child measured (cw, ch)
CenterBox(x, y, width, height, cw, ch) ==
    << x + (width - cw) \div 2, y + (height - ch) \div 2, cw, ch >>

\* A child and the box its parent's render hands it
Placed(child, x, y, width, height) == [child |-> child, box |-> <<x, y, width, height>>]

\* Row.render (dir = "row") and Column.render (dir = "column"):
\* whether the flex container and its items have non-negative sizes
FlexDefined(c, dir, width, height) ==
    LET children == Present(c.children)
        inner_w == width - c.padding * 2
        inner_h == height - c.padding * 2
        items == FlexItems(children, c.align, dir, inner_w, inner_h)
    IN children = <<>>
       \/ /\ inner_w >= 0 /\ inner_h >= 0 /\ c.gap >= 0
          /\ \A k \in 1..Len(items) : items[k].basis >= 0 /\ items[k].cross >= 0

\* "Render children at computed positions": the boxes, relative to the
\* inner origin (inner_x, inner_y) and main axis first, turned to (x, y)
FlexPlaced(children, dir, inner_x, inner_y, boxes) ==
    [k \in 1..Len(children) |->
        IF dir = "row"
        THEN Placed(children[k], inner_x + boxes[k][1], inner_y + boxes[k][2],
                    boxes[k][3], boxes[k][4])
        ELSE Placed(children[k], inner_x + boxes[k][2], inner_y + boxes[k][1],
                    boxes[k][4], boxes[k][3])]

\* Row.render (dir = "row") and Column.render (dir = "column")
FlexRender(c, dir, x, y, width, height) ==
    LET inner_w == width - c.padding * 2
        inner_h == height - c.padding * 2
    IN IF Present(c.children) = <<>> THEN <<>>
       ELSE With(Tuple(FlexItems(Present(c.children), c.align, dir, inner_w, inner_h)),
                 LAMBDA items :
                   With(Tuple(FlexBoxes(IF dir = "row" THEN inner_w ELSE inner_h,
                                        IF dir = "row" THEN inner_h ELSE inner_w,
                                        c.gap, ToJustify(c.justify), ToAlign(c.align),
                                        items)),
                        LAMBDA boxes :
                          FlexPlaced(Present(c.children), dir,
                                     x + c.padding, y + c.padding, boxes)))

\* Adaptive.render: the Row or the Column it builds and renders in its own box
AdaptiveRender(c, x, y, width, height) ==
    LET children == Present(c.children)
        inner_w == width - c.padding * 2
        total_width ==
            SumOver([k \in 1..Len(children) |-> Measure(children[k], inner_w, height)[1]],
                    Len(children))
            + c.gap * (Len(children) - 1)
    IN IF children = <<>> THEN <<>>
       ELSE IF AdaptiveFits(total_width, inner_w)
       THEN <<Placed(Row(children, c.gap, "center", "space-between", c.padding),
                     x, y, width, height)>>
       ELSE <<Placed(Column(children, c.gap, "center", "center", c.padding),
                     x, y, width, height)>>

\* Mutant of PaddingRender: the child is rendered in an empty box too
PaddingRender_NoSkip(c, x, y, width, height) ==
    LET p == Padding_get_padding(c)
    IN <<Placed(c.child, x + p[4], y + p[1],
                Max(0, width - p[4] - p[2]), Max(0, height - p[1] - p[3]))>>

\* Padding.render
PaddingRender(c, x, y, width, height) ==
    LET p == Padding_get_padding(c)
        child_w == Max(0, width - p[4] - p[2])
        child_h == Max(0, height - p[1] - p[3])
    IN IF child_w > 0 /\ child_h > 0
       THEN <<Placed(c.child, x + p[4], y + p[1], child_w, child_h)>>
       ELSE <<>>

\* The render calls that c.render(ctx, x, y, width, height) makes itself,
\* in call order
RenderCalls(c, x, y, width, height) ==
    CASE c.kind = "Row" -> FlexRender(c, "row", x, y, width, height)
      [] c.kind = "Column" -> FlexRender(c, "column", x, y, width, height)
      [] c.kind = "Stack" ->
            LET children == Present(c.children)
            IN [k \in 1..Len(children) |-> Placed(children[k], x, y, width, height)]
      [] c.kind = "Adaptive" -> AdaptiveRender(c, x, y, width, height)
      [] c.kind = "Center" ->
            LET m == Measure(c.child, width, height)
                b == CenterBox(x, y, width, height, m[1], m[2])
            IN <<Placed(c.child, b[1], b[2], b[3], b[4])>>
      [] c.kind = "Padding" -> PaddingRender(c, x, y, width, height)
      [] c.kind = "Panel" ->
            IF c.child.kind # "None" THEN <<Placed(c.child, x, y, width, height)>>
            ELSE <<>>
      [] OTHER -> <<>>

\* Whether the render of c stays within what FlexBoxes is defined for
Defined(c, width, height) ==
    CASE c.kind = "Row" -> FlexDefined(c, "row", width, height)
      [] c.kind = "Column" -> FlexDefined(c, "column", width, height)
      [] OTHER -> TRUE

RECURSIVE Render(_, _, _, _, _, _)
RECURSIVE RenderEach(_, _)

\* The render calls rc, made in order from a render that received box `parent`
RenderEach(rc, parent) ==
    Concat([k \in 1..Len(rc) |->
               Render(rc[k].child, rc[k].box[1], rc[k].box[2], rc[k].box[3],
                      rc[k].box[4], parent)])

\* Component.render(ctx, x, y, width, height): the render calls made, this
\* one first, then those on the descendants in call order.
Render(c, x, y, width, height, parent) ==
    <<Call(c, x, y, width, height, parent, Defined(c, width, height))>>
    \o With(Tuple(RenderCalls(c, x, y, width, height)),
            LAMBDA rc : RenderEach(rc, <<x, y, width, height>>))

\* ------------------------------------------------------------------------
\* The trees and boxes explored
\* ------------------------------------------------------------------------
BoxUnit == 12
MaxBoxUnits == 2
OriginX == 2
OriginY == 3
GapPx == 2
PadPx == 3
MaxChildren == 2

\* Widths and heights of the boxes offered
Lengths == {k * BoxUnit : k \in 0..MaxBoxUnits}

Aligns == {"start", "center", "end", "stretch"}
Justifies == {"start", "center", "end", "space-between", "space-around"}

Leaves ==
    { Text(10, 4), Text(30, 6), Icon(<<>>), Icon(<<16>>), Bar(<<>>), Bar(<<4>>),
      Ring, Arc, Sparkline, Panel(NoneC), Spacer(0), Spacer(5), Empty }

\* What the children lists are drawn from (NoneC: a None entry)
ChildAlphabet == { Text(10, 4), Icon(<<>>), Spacer(0), NoneC }
ChildLists == SeqsUpTo(ChildAlphabet, MaxChildren)

\* <<gap, align, justify, padding>> of the Rows and Columns explored
FlexParams ==
    {<<g, "center", "start", p>> : g \in {0, GapPx}, p \in {0, PadPx}}
    \cup {<<GapPx, a, "start", 0>> : a \in Aligns}
    \cup {<<GapPx, "center", j, 0>> : j \in Justifies}

Flexes ==
    {Row(ch, q[1], q[2], q[3], q[4]) : ch \in ChildLists, q \in FlexParams}
    \cup {Column(ch, q[1], q[2], q[3], q[4]) : ch \in ChildLists, q \in FlexParams}

\* Children of the single-child wrappers
Inner ==
    Leaves \cup
    { Row(<<Text(10, 4), Spacer(0), Icon(<<>>)>>, GapPx, "center", "start", 0),
      Column(<<Sparkline, Bar(<<>>)>>, GapPx, "center", "start", 0) }

Wrappers ==
    {Center(c) : c \in Inner}
    \cup {Panel(c) : c \in Inner}
    \cup {Padding(c, PadPx, <<>>, <<>>, <<>>, <<>>, <<>>, <<>>) : c \in Inner}
    \cup {Padding(c, 0, <<PadPx>>, <<>>, <<>>, <<>>, <<>>, <<>>) : c \in Inner}
    \cup {Padding(c, 0, <<>>, <<>>, <<PadPx>>, <<>>, <<>>, <<2 * PadPx>>) : c \in Inner}
    \cup {Stack(ch) : ch \in ChildLists}
    \cup {Adaptive(ch, g, p) : ch \in ChildLists, g \in {0, GapPx}, p \in {0, PadPx}}

Trees == Leaves \cup Flexes \cup Wrappers

\* A render of c in box b stays within what FlexBoxes is defined for
RenderDefined(c, b) ==
    LET r == Render(c, b[1], b[2], b[3], b[4], b)
    IN \A k \in 1..Len(r) : r[k].defined

LayIdle ==
    /\ tree = NoneC /\ box = <<0, 0, 0, 0>> /\ measured = <<>> /\ calls = <<>>
    /\ laypc = "idle"

\* A freshly built tree and the box (x, y, width, height) it is to be shown in
LayInit ==
    /\ tree \in Trees
    /\ box \in {<<OriginX, OriginY, w, h>> : w \in Lengths, h \in Lengths}
    /\ RenderDefined(tree, box)
    /\ measured = <<>> /\ calls = <<>>
    /\ laypc = "built"

\* tree.measure(ctx, width, height)
LayMeasure ==
    /\ laypc = "built"
    /\ measured' = Measure(tree, box[3], box[4])
    /\ laypc' = "measured"
    /\ UNCHANGED <<tree, box, calls>>
    /\ UNCHANGED notLay

\* tree.render(ctx, x, y, width, height)
LayRender ==
    /\ laypc = "measured"
    /\ calls' = Render(tree, box[1], box[2], box[3], box[4], box)
    /\ laypc' = "rendered"
    /\ UNCHANGED <<tree, box, measured>>
    /\ UNCHANGED notLay

\* ========================================================================
\* renderer.py : Renderer.to_jpeg
\* ========================================================================
\* The image is fixed during one call (finalize and rotate happen before the
\* first encode); what the loop observes of it is the length of its JPEG
\* encoding at each quality it tries.  The encoder is the environment: each
\* encode yields some length in 1..MaxBytes, except that the length at the
\* floor quality is the image's floor_size.  `monotone` records whether the
\* lengths seen so far are consistent with a length that is non-decreasing in
\* quality.

\* "quality: JPEG quality (0-100)"
MAX_QUALITY == 100
\* `current_quality > 20`
QUALITY_FLOOR == 20
\* `current_quality -= 10`
QUALITY_STEP == 10

MaxBytes == 3

\* Mutant of LoopContinues: the loop ignores the size and always lowers the
\* quality down to the floor
LoopContinues_IgnoreSize(res, cap, q) == q > QUALITY_FLOOR

\* Mutant of LoopContinues: the loop stops at a higher quality than the floor
LoopContinues_HighFloor(res, cap, q) == res > cap /\ q > QUALITY_FLOOR + QUALITY_STEP

\* while len(result) > max_size and current_quality > 20
LoopContinues(res, cap, q) == res > cap /\ q > QUALITY_FLOOR

\* The lengths final_img.save(..., quality=q) can produce
EncodedSizes(q) == IF q = QUALITY_FLOOR THEN {floor_size} ELSE 1..MaxBytes

\* Whether length s at quality q, after length prev at a higher quality (0: no
\* earlier encode), is consistent with a non-decreasing length
StillMonotone(q, s, prev) ==
    /\ prev = 0 \/ s <= prev
    /\ q >= QUALITY_FLOOR => s >= floor_size
    /\ q <= QUALITY_FLOOR => s <= floor_size

JpegIdle ==
    /\ quality = 0 /\ max_size = 0 /\ floor_size = 0 /\ current_quality = 0
    /\ result = 0 /\ encodes = 0 /\ monotone = TRUE /\ jpc = "idle"

\* to_jpeg(img, quality, max_size): entry, after finalize and rotation
JpegInit ==
    /\ quality \in 0..MAX_QUALITY
    /\ max_size \in 0..MaxBytes
    /\ floor_size \in 1..MaxBytes
    /\ current_quality = quality
    /\ result = 0 /\ encodes = 0 /\ monotone = TRUE /\ jpc = "first"

\* "Try at requested quality first"
JpegFirstEncode ==
    /\ jpc = "first"
    /\ \E s \in EncodedSizes(quality) :
          /\ result' = s
          /\ monotone' = StillMonotone(quality, s, 0)
    /\ current_quality' = quality
    /\ encodes' = 1
    /\ jpc' = "loop"
    /\ UNCHANGED <<quality, max_size, floor_size>>
    /\ UNCHANGED notJpeg

\* loop body: lower the quality and encode again
JpegReencode ==
    /\ jpc = "loop"
    /\ LoopContinues(result, max_size, current_quality)
    /\ current_quality' = current_quality - QUALITY_STEP
    /\ \E s \in EncodedSizes(current_quality - QUALITY_STEP) :
          /\ result' = s
          /\ monotone' = (monotone /\ StillMonotone(current_quality - QUALITY_STEP, s, result))
    /\ encodes' = encodes + 1
    /\ UNCHANGED <<quality, max_size, floor_size, jpc>>
    /\ UNCHANGED notJpeg

\* loop exit: return result
JpegReturn ==
    /\ jpc = "loop"
    /\ ~LoopContinues(result, max_size, current_quality)
    /\ jpc' = "done"
    /\ UNCHANGED <<quality, max_size, floor_size, current_quality, result, encodes,
                   monotone>>
    /\ UNCHANGED notJpeg

\* ========================================================================
\* widgets/image.py : StaticImage.render;  renderer.py : Renderer.draw_image
\* ========================================================================
SUPERSAMPLE_SCALE == 2

\* Renderer._s / _scale_rect: int(value * self._scale), on integers
ScaleRect(rect) ==
    << rect[1] * SUPERSAMPLE_SCALE, rect[2] * SUPERSAMPLE_SCALE,
       rect[3] * SUPERSAMPLE_SCALE, rect[4] * SUPERSAMPLE_SCALE >>

\* StaticImage.render: the rect (x1, y1, x2, y2) handed to ctx.draw_image
ImageRect(has_label, x, y, width, height) ==
    IF has_label THEN <<x, y, x + width, y + height - Percent15(height)>>
    ELSE <<x, y, x + width, y + height>>

\* Outcome of a draw: the error raised ("none" when it returned) and the
\* size the source was resized to
Drawn(error, new_width, new_height) ==
    [error |-> error, new_width |-> new_width, new_height |-> new_height]

\* Renderer.draw_image for a source of size source = <<width, height>>
\* (both positive).  src_ratio > dest_ratio is compared, and the products
\* with the ratios truncated, in exact arithmetic.
DrawImage(source, rect, fit_mode) ==
    LET r == ScaleRect(rect)
        dest_width == r[3] - r[1]
        dest_height == r[4] - r[2]
        wider == source[1] * dest_height > dest_width * source[2]
    IN IF dest_height = 0 THEN Drawn("ZeroDivisionError", 0, 0)
       ELSE IF fit_mode = "contain"
       THEN (IF wider
             THEN Drawn("none", dest_width, TruncDiv(dest_width * source[2], source[1]))
             ELSE Drawn("none", TruncDiv(dest_height * source[1], source[2]), dest_height))
       ELSE IF fit_mode = "cover"
       THEN (IF wider
             THEN Drawn("none", TruncDiv(dest_height * source[1], source[2]), dest_height)
             ELSE Drawn("none", dest_width, TruncDiv(dest_width * source[2], source[1])))
       ELSE Drawn("none", dest_width, dest_height)

ImgUnit == 10
MaxImgUnits == 2
ImgLengths == {k * ImgUnit : k \in 0..MaxImgUnits}
\* Sizes of the source images explored
SourceSizes == {<<1, 1>>, <<2, 1>>, <<1, 2>>}
FitModes == {"contain", "cover", "stretch"}

ImgIdle ==
    /\ simage = [image |-> <<1, 1>>, label |-> FALSE, fit |-> "contain"]
    /\ imgbox = <<0, 0, 0, 0>> /\ image_rect = <<>> /\ drawn = <<>> /\ imgpc = "idle"

\* A StaticImage and the box (x, y, width, height) it is to be rendered in
ImgInit ==
    /\ simage \in [image : SourceSizes, label : BOOLEAN, fit : FitModes]
    /\ imgbox \in {<<OriginX, OriginY, w, h>> : w \in ImgLengths, h \in ImgLengths}
    /\ image_rect = <<>> /\ drawn = <<>> /\ imgpc = "render"

\* StaticImage.render up to the call of ctx.draw_image
ImgRender ==
    /\ imgpc = "render"
    /\ image_rect' = ImageRect(simage.label, imgbox[1], imgbox[2], imgbox[3], imgbox[4])
    /\ imgpc' = "draw"
    /\ UNCHANGED <<simage, imgbox, drawn>>
    /\ UNCHANGED notImg

\* Renderer.draw_image on that rect
ImgDraw ==
    /\ imgpc = "draw"
    /\ drawn' = DrawImage(simage.image, image_rect, simage.fit)
    /\ imgpc' = "done"
    /\ UNCHANGED <<simage, imgbox, image_rect>>
    /\ UNCHANGED notImg

\* ========================================================================
\* renderer.py : _load_font, _load_emoji_font, _load_mdi_font
\* ========================================================================
\* One candidate of font_paths: a file and the face index inside it
FontPath(path, index) == [path |-> path, index |-> index]

\* _load_font: the candidates in the order they are tried
FontPaths(bold) ==
    IF bold
    THEN << FontPath("fonts/DejaVuSans-Bold.ttf", 0),
            FontPath("/usr/share/fonts/truetype/dejavu/DejaVuSans-Bold.ttf", 0),
            FontPath("/System/Library/Fonts/Helvetica.ttc", 1),
            FontPath("C:/Windows/Fonts/arialbd.ttf", 0) >>
    ELSE << FontPath("fonts/DejaVuSans.ttf", 0),
            FontPath("/usr/share/fonts/truetype/dejavu/DejaVuSans.ttf", 0),
            FontPath("/System/Library/Fonts/Helvetica.ttc", 0),
            FontPath("C:/Windows/Fonts/arial.ttf", 0) >>

EMOJI_FONT == "fonts/NotoEmoji.ttf"
MDI_FONT == "fonts/materialdesignicons-webfont.ttf"

\* A font object: the file it was read from, its pixel size and face index
Font(path, size, index) == [path |-> path, size |-> size, index |-> index]

\* ImageFont.load_default(): the built-in font, whatever size was asked for
DefaultFont == Font("load_default", 10, 0)

\* Outcome of a call: the error raised ("none" when it returned) and the
\* font returned
Loaded(error, font) == [error |-> error, font |-> font]

\* ImageFont.truetype(path, size, index=index) where `files` are the font
\* files that can be read.  A missing file raises OSError.  A size that is
\* not positive raises bad_size: OSError from FreeType in older Pillow
\* releases, ValueError from FreeTypeFont.__init__ since Pillow 10.1.
Truetype(files, bad_size, path, size, index) ==
    IF size <= 0 THEN Loaded(bad_size, DefaultFont)
    ELSE IF path \in files THEN Loaded("none", Font(path, size, index))
    ELSE Loaded("OSError", DefaultFont)

\* _load_font: the loop `for path_entry in font_paths` from candidate k on;
\* only OSError is caught
RECURSIVE LoadLoop(_, _, _, _, _)
LoadLoop(files, bad_size, font_paths, k, size) ==
    IF k > Len(font_paths) THEN Loaded("none", DefaultFont)
    ELSE With(Truetype(files, bad_size, font_paths[k].path, size, font_paths[k].index),
              LAMBDA r :
                  IF r.error = "OSError"
                  THEN LoadLoop(files, bad_size, font_paths, k + 1, size)
                  ELSE r)

Load_font(files, bad_size, size, bold) ==
    LoadLoop(files, bad_size, FontPaths(bold), 1, size)

\* _load_emoji_font / _load_mdi_font: one file, OSError caught
LoadOne(files, bad_size, path, size) ==
    With(Truetype(files, bad_size, path, size, 0),
         LAMBDA r : IF r.error = "OSError" THEN Loaded("none", DefaultFont) ELSE r)

Load_emoji_font(files, bad_size, size) == LoadOne(files, bad_size, EMOJI_FONT, size)
Load_mdi_font(files, bad_size, size) == LoadOne(files, bad_size, MDI_FONT, size)

MaxFontSize == 2
\* Pixel sizes requested of the loaders
FontSizes == 0..MaxFontSize
\* Every font file the loaders look for
FontFiles ==
    {FontPaths(b)[k].path : b \in BOOLEAN, k \in 1..4} \cup {EMOJI_FONT, MDI_FONT}
\* What truetype raises for a size that is not positive
BadSizeErrors == {"OSError", "ValueError"}

FontIdle ==
    /\ font_files = {} /\ bad_size_error = "OSError"
    /\ font_call = <<>> /\ font_loaded = <<>>

\* An installation: the font files present and the Pillow release
FontInit ==
    /\ font_files \in SUBSET FontFiles
    /\ bad_size_error \in BadSizeErrors
    /\ font_call = <<>> /\ font_loaded = <<>>

\* A call _load_font(size, bold)
FontLoad ==
    /\ \E size \in FontSizes, bold \in BOOLEAN :
        /\ font_call' = <<"_load_font", size, bold>>
        /\ font_loaded' = Load_font(font_files, bad_size_error, size, bold)
    /\ UNCHANGED <<font_files, bad_size_error>>
    /\ UNCHANGED notFont

\* A call _load_emoji_font(size)
FontLoadEmoji ==
    /\ \E size \in FontSizes :
        /\ font_call' = <<"_load_emoji_font", size, FALSE>>
        /\ font_loaded' = Load_emoji_font(font_files, bad_size_error, size)
    /\ UNCHANGED <<font_files, bad_size_error>>
    /\ UNCHANGED notFont

\* A call _load_mdi_font(size)
FontLoadMdi ==
    /\ \E size \in FontSizes :
        /\ font_call' = <<"_load_mdi_font", size, FALSE>>
        /\ font_loaded' = Load_mdi_font(font_files, bad_size_error, size)
    /\ UNCHANGED <<font_files, bad_size_error>>
    /\ UNCHANGED notFont

\* ========================================================================
\* renderer.py : Renderer.get_scaled_font, Renderer.fit_text_font
\* ========================================================================
DISPLAY_HEIGHT == 240

\* get_scaled_font: semantic_ratios, in percent of the container height
SemanticRatios == [primary |-> 35, secondary |-> 20, tertiary |-> 12]
\* get_scaled_font: the floor of the semantic sizes
SemanticMinSize == 22

\* get_scaled_font: legacy_config, <<base_size, min_size>> per category
LegacyConfig ==
    [tiny |-> <<13, 22>>, small |-> <<14, 24>>, regular |-> <<15, 24>>,
     medium |-> <<18, 28>>, large |-> <<24, 34>>, xlarge |-> <<36, 44>>,
     huge |-> <<52, 52>>]
\* legacy_config.get(size_name, (15, 24))
LegacyDefault == <<15, 24>>

\* get_scaled_font: scaled_size for adjust = 0 (adjust_factor = 1.0), the
\* products truncated in exact arithmetic
ScaledSize(size_name, rect_height) ==
    IF size_name \in DOMAIN SemanticRatios
    THEN Max(SemanticMinSize, (rect_height * SemanticRatios[size_name]) \div 100)
    ELSE With(IF size_name \in DOMAIN LegacyConfig THEN LegacyConfig[size_name]
              ELSE LegacyDefault,
              LAMBDA cfg :
                  Max(cfg[2], (cfg[1] * SUPERSAMPLE_SCALE * rect_height)
                                  \div (DISPLAY_HEIGHT * SUPERSAMPLE_SCALE)))

\* _load_font(size, bold=bold) where every font file is installed
InstalledFont(size, bold) == Load_font(FontFiles, "ValueError", size, bold).font

\* self._font_cache = {}
EmptyCache == [key \in {} |-> DefaultFont]

\* if cache_key not in self._font_cache: self._font_cache[cache_key] = font
CachePut(cache, cache_key, font) ==
    IF cache_key \in DOMAIN cache THEN cache
    ELSE [key \in DOMAIN cache \cup {cache_key} |->
              IF key = cache_key THEN font ELSE cache[key]]

\* fit_text_font: the state of one call
FitState(bold, min_size, max_sz, low, high, best_font) ==
    [bold |-> bold, min_size |-> min_size, max_size |-> max_sz,
     low |-> low, high |-> high, best_font |-> best_font]

\* fit_text_font before the loop
FitStart(bold, min_size, max_sz) ==
    FitState(bold, min_size, max_sz, min_size, max_sz, InstalledFont(min_size, bold))

\* text_width <= max_width and text_height <= max_height
FitsBox(bbox, limits) == bbox[1] <= limits[1] /\ bbox[2] <= limits[2]

\* Mutant of FitNext: a size that fits moves low but is not kept
FitNext_Forget(f, table, limits) ==
    With((f.low + f.high) \div 2,
         LAMBDA mid :
             IF FitsBox(table[mid], limits)
             THEN [f EXCEPT !.low = mid + 1]
             ELSE [f EXCEPT !.high = mid - 1])

\* fit_text_font: one iteration of `while low <= high`, where table[s] is
\* the <<width, height>> of the text's box in the font of size s (getbbox
\* returns a 4-tuple, which is truthy)
FitNext(f, table, limits) ==
    With((f.low + f.high) \div 2,
         LAMBDA mid :
             IF FitsBox(table[mid], limits)
             THEN [f EXCEPT !.best_font = InstalledFont(mid, f.bold), !.low = mid + 1]
             ELSE [f EXCEPT !.high = mid - 1])

\* fit_text_font: cache_key of the result, (int(bbox[3] - bbox[1]), bold)
FitCacheKey(f, table) == <<table[f.best_font.size][2], f.bold>>

MinFit == 22
FitSpan == 3
\* Font sizes a fit may range over
FitSizes == MinFit..(MinFit + FitSpan)
\* Boxes <<width, height>> the text may measure
TextBoxes == {<<20, 20>>, <<30, 22>>, <<40, 24>>}
\* max_width and max_height of the fits
MaxWidths == {25, 35}
MaxHeights == {21, 23}
SizeNames ==
    {"primary", "secondary", "tertiary", "tiny", "small", "regular", "medium",
     "large", "xlarge", "huge", "other"}
\* rect_height of the lookups
RectHeights == {0, 240, 480}
MaxCalls == 2

\* Width and height do not decrease from size a to size b
Grows(table, a, b) == table[a][1] <= table[b][1] /\ table[a][2] <= table[b][2]
Monotone(table, sizes) ==
    \A a \in sizes, b \in sizes : a <= b => Grows(table, a, b)

FitIdle ==
    /\ bbox_table = <<>> /\ fit_limits = <<0, 0>> /\ font_cache = EmptyCache
    /\ fit = <<>> /\ fit_returned = <<>> /\ looked_up = <<>>
    /\ calls_left = 0 /\ fitpc = "idle"

\* A new Renderer, a text with its box per font size, and one fit to make
FitInit ==
    /\ bbox_table \in [FitSizes -> TextBoxes]
    /\ fit_limits \in MaxWidths \X MaxHeights
    /\ font_cache = EmptyCache
    /\ fit = <<>> /\ fit_returned = <<>> /\ looked_up = <<>>
    /\ calls_left = 1 /\ fitpc = "idle"

\* A new Renderer, a text whose box grows with the font size, and MaxCalls
\* calls to make
CacheInit ==
    /\ bbox_table \in {t \in [FitSizes -> TextBoxes] :
                           /\ Monotone(t, FitSizes)
                           /\ t[MinFit] # t[MinFit + FitSpan]}
    /\ fit_limits \in MaxWidths \X MaxHeights
    /\ font_cache = EmptyCache
    /\ fit = <<>> /\ fit_returned = <<>> /\ looked_up = <<>>
    /\ calls_left = MaxCalls /\ fitpc = "idle"

\* fit_text_font is called: up to the loop
FitCall ==
    /\ fitpc = "idle" /\ calls_left > 0
    /\ \E bold \in BOOLEAN, min_size \in FitSizes, max_sz \in FitSizes :
           fit' = FitStart(bold, min_size, max_sz)
    /\ fit_returned' = <<>>
    /\ calls_left' = calls_left - 1
    /\ fitpc' = "loop"
    /\ UNCHANGED <<bbox_table, fit_limits, font_cache, looked_up>>
    /\ UNCHANGED notFit

\* One iteration of the binary search
FitStep ==
    /\ fitpc = "loop" /\ fit.low <= fit.high
    /\ fit' = FitNext(fit, bbox_table, fit_limits)
    /\ UNCHANGED <<bbox_table, fit_limits, font_cache, fit_returned, looked_up,
                   calls_left, fitpc>>
    /\ UNCHANGED notFit

\* After the loop: the result is cached and returned
FitCache ==
    /\ fitpc = "loop" /\ fit.low > fit.high
    /\ font_cache' = CachePut(font_cache, FitCacheKey(fit, bbox_table), fit.best_font)
    /\ fit_returned' = <<fit.best_font>>
    /\ fitpc' = "idle"
    /\ UNCHANGED <<bbox_table, fit_limits, fit, looked_up, calls_left>>
    /\ UNCHANGED notFit

\* get_scaled_font(size_name, rect_height, bold): looked_up is the cache key
\* and the font returned
GetScaledFont ==
    /\ fitpc = "idle" /\ calls_left > 0
    /\ \E size_name \in SizeNames, rect_height \in RectHeights, bold \in BOOLEAN :
           \E cache_key \in {<<ScaledSize(size_name, rect_height), bold>>} :
               /\ font_cache' = CachePut(font_cache, cache_key,
                                         InstalledFont(cache_key[1], bold))
               /\ looked_up' = <<cache_key, font_cache'[cache_key]>>
    /\ calls_left' = calls_left - 1
    /\ UNCHANGED <<bbox_table, fit_limits, fit, fit_returned, fitpc>>
    /\ UNCHANGED notFit

\* ========================================================================
\* renderer.py : Renderer.dim_color, Renderer.blend_color
\* ========================================================================
\* int(color[k] * factor) for factor = num / den
DimChannel(channel, num, den) == TruncDiv(channel * num, den)

\* int(color1[k] + (color2[k] - color1[k]) * factor) for factor = num / den
BlendChannel(c1, c2, num, den) == TruncDiv(c1 * den + (c2 - c1) * num, den)

\* Renderer.dim_color
DimColor(color, num, den) ==
    << DimChannel(color[1], num, den), DimChannel(color[2], num, den),
       DimChannel(color[3], num, den) >>

\* Renderer.blend_color
BlendColor(color1, color2, num, den) ==
    << BlendChannel(color1[1], color2[1], num, den),
       BlendChannel(color1[2], color2[2], num, den),
       BlendChannel(color1[3], color2[3], num, den) >>

\* Factors are the fractions num / FactorDen, from -1 to 2
FactorDen == 4
FactorNums == (0 - FactorDen)..(2 * FactorDen)
\* Channel values explored
Channels == {0, 100, 255}
Colors == Channels \X Channels \X Channels

ColorIdle == color_in = <<>> /\ color_call = "" /\ color_out = <<>>

\* Two colours and a factor num / FactorDen
ColorInit ==
    /\ color_in \in Colors \X Colors \X FactorNums
    /\ color_call = "" /\ color_out = <<>>

\* The call dim_color(color1, factor)
ColorDim ==
    /\ color_call = ""
    /\ color_call' = "dim_color"
    /\ color_out' = DimColor(color_in[1], color_in[3], FactorDen)
    /\ UNCHANGED color_in
    /\ UNCHANGED notColor

\* The call blend_color(color1, color2, factor)
ColorBlend ==
    /\ color_call = ""
    /\ color_call' = "blend_color"
    /\ color_out' = BlendColor(color_in[1], color_in[2], color_in[3], FactorDen)
    /\ UNCHANGED color_in
    /\ UNCHANGED notColor

\* ========================================================================
\* renderer.py : Renderer.draw_sparkline;  widgets/candlestick.py :
\* CandlestickDisplay.render;  widgets/gauge.py : GaugeWidget.render
\* (scaling of the data to the chart)
\* ========================================================================
\* Floats are modelled as decimal floating-point numbers of FloatDigits
\* significant digits, written as integers counting 1/FloatUnit; the
\* source's floats are binary with 53 significant bits.  Every result is
\* rounded to the nearest representable number, ties to the even one.
FloatUnit == 1000
FloatDigits == 3

Abs(n) == IF n >= 0 THEN n ELSE 0 - n

\* The power of ten that one unit in the last place of m > 0 is worth
Ulp(m) ==
    CHOOSE q \in {10 ^ e : e \in 0..9} :
        /\ m < q * (10 ^ FloatDigits)
        /\ q = 1 \/ m >= (q \div 10) * (10 ^ FloatDigits)

\* m > 0 rounded to a multiple of q, ties to even
RoundTo(m, q) ==
    IF 2 * (m % q) > q \/ (2 * (m % q) = q /\ (m \div q) % 2 = 1)
    THEN ((m \div q) + 1) * q
    ELSE (m \div q) * q

\* The float nearest to n
Fl(n) ==
    IF n = 0 THEN 0
    ELSE IF n > 0 THEN RoundTo(n, Ulp(n))
    ELSE 0 - RoundTo(0 - n, Ulp(0 - n))

FlAdd(a, b) == Fl(a + b)
FlSub(a, b) == Fl(a - b)
\* a * (num / den) for the decimal fraction num / den
FlScale(a, num, den) == Fl(TruncDiv(2 * a * num + den, 2 * den))

\* Outcome of a scaling: the error raised ("none" when it returned), the
\* bounds and range the data was scaled to, and the pixel rows computed
Scaled(error, lo, hi, range, ys) ==
    [error |-> error, lo |-> lo, hi |-> hi, range |-> range, ys |-> ys]

\* min(data), max(data)
MinOf(data) == CHOOSE v \in {data[k] : k \in 1..Len(data)} :
                   \A k \in 1..Len(data) : v <= data[k]
MaxOf(data) == CHOOSE v \in {data[k] : k \in 1..Len(data)} :
                   \A k \in 1..Len(data) : v >= data[k]

\* int(((value - lo) / range) * height) for range # 0
RowOf(value, lo, range, height) ==
    IF range > 0 THEN TruncDiv(FlSub(value, lo) * height, range)
    ELSE 0 - TruncDiv(FlSub(value, lo) * height, 0 - range)

\* draw_sparkline: range_val and the rows of the control points
DrawSparkline(data, y2, height) ==
    IF Len(data) < 2 THEN Scaled("none", 0, 0, 0, <<>>)
    ELSE With(<<MinOf(data), MaxOf(data)>>,
              LAMBDA m :
                  With(IF m[2] # m[1] THEN FlSub(m[2], m[1]) ELSE FloatUnit,
                       LAMBDA range_val :
                           IF range_val = 0
                           THEN Scaled("ZeroDivisionError", m[1], m[2], 0, <<>>)
                           ELSE Scaled("none", m[1], m[2], range_val,
                                       [k \in 1..Len(data) |->
                                           y2 - RowOf(data[k], m[1], range_val, height)])))

\* CandlestickDisplay.render: data_min, data_max before the margin is added
CandleBounds(data) ==
    With(<<MinOf(data), MaxOf(data)>>,
         LAMBDA m :
             IF FlSub(m[2], m[1]) = 0
             THEN <<FlSub(m[1], FloatUnit \div 2), FlAdd(m[2], FloatUnit \div 2), FloatUnit>>
             ELSE <<m[1], m[2], FlSub(m[2], m[1])>>)

\* CandlestickDisplay.render: the margin of 5% and val_to_y of every candle,
\* for flat candles (open = high = low = close = data[k])
DrawCandles(data, chart_bottom, chart_height) ==
    IF Len(data) = 0 THEN Scaled("none", 0, 0, 0, <<>>)
    ELSE With(CandleBounds(data),
              LAMBDA b :
                  With(FlScale(b[3], 5, 100),
                       LAMBDA margin :
                           With(<<FlSub(b[1], margin), FlAdd(b[2], margin)>>,
                                LAMBDA m :
                                    IF FlSub(m[2], m[1]) = 0
                                    THEN Scaled("ZeroDivisionError", b[1], b[2], 0, <<>>)
                                    ELSE Scaled("none", b[1], b[2], FlSub(m[2], m[1]),
                                                [k \in 1..Len(data) |->
                                                    chart_bottom
                                                      - RowOf(data[k], m[1],
                                                              FlSub(m[2], m[1]),
                                                              chart_height)]))))

\* A percentage as the fraction <<num, den>>, den > 0
Clamp0(p) == IF p[1] < 0 THEN <<0, 1>> ELSE p
Clamp100(p) == IF p[1] > 100 * p[2] THEN <<100, 1>> ELSE p

\* GaugeWidget.render: percent
GaugePercent(value, min_value, max_value) ==
    IF max_value - min_value > 0
    THEN Clamp0(Clamp100(<<(value - min_value) * 100, max_value - min_value>>))
    ELSE <<0, 1>>

MaxPoints == 2
ScaleHeight == 40
\* Data values, in units of 1/FloatUnit: 0, 5, -3 and 1000
ScaleValues == {0, 5 * FloatUnit, 0 - 3 * FloatUnit, 1000 * FloatUnit}
\* min and max a gauge is configured with
GaugeBounds == {0, 5 * FloatUnit, 100 * FloatUnit}

ScaleIdle ==
    /\ scale_data = <<>> /\ gauge_range = <<0, 0>>
    /\ scale_call = "" /\ scale_out = <<>>

\* A series of values and a gauge configuration
ScaleInit ==
    /\ scale_data \in {s \in SeqsUpTo(ScaleValues, MaxPoints) : Len(s) >= 1}
    /\ gauge_range \in GaugeBounds \X GaugeBounds
    /\ scale_call = "" /\ scale_out = <<>>

\* draw_sparkline on the series
ScaleSparkline ==
    /\ scale_call = ""
    /\ scale_call' = "draw_sparkline"
    /\ scale_out' = DrawSparkline(scale_data, ScaleHeight, ScaleHeight)
    /\ UNCHANGED <<scale_data, gauge_range>>
    /\ UNCHANGED notScale

\* CandlestickDisplay.render on the series as flat candles
ScaleCandles ==
    /\ scale_call = ""
    /\ scale_call' = "candlestick"
    /\ scale_out' = DrawCandles(scale_data, ScaleHeight, ScaleHeight)
    /\ UNCHANGED <<scale_data, gauge_range>>
    /\ UNCHANGED notScale

\* GaugeWidget.render for the first value of the series
ScaleGauge ==
    /\ scale_call = ""
    /\ scale_call' = "gauge"
    /\ scale_out' = Scaled("none", gauge_range[1], gauge_range[2],
                           gauge_range[2] - gauge_range[1],
                           <<GaugePercent(scale_data[1], gauge_range[1], gauge_range[2])>>)
    /\ UNCHANGED <<scale_data, gauge_range>>
    /\ UNCHANGED notScale

\* ========================================================================
\* widgets/progress.py, widgets/media.py, widgets/gauge.py : the percent
\* handed to draw_bar
\* ========================================================================
\* What a render handed to draw_bar: drawn is FALSE when no bar was drawn,
\* percent is the fraction <<num, den>>
BarCall(is_drawn, percent) == [drawn |-> is_drawn, percent |-> percent]

\* ProgressWidget.render: target = self.target or 100
TargetOr100(target) == IF target = 0 THEN 100 ELSE target

\* min(100, (current_value / target) * 100) if target > 0 else 0
ProgressPercent(current_value, target) ==
    IF target > 0 THEN Clamp100(<<current_value * 100, target>>) ELSE <<0, 1>>

\* MediaWidget.render: the bar is drawn only for duration > 0
MediaBar(position, duration) ==
    IF duration > 0 THEN BarCall(TRUE, Clamp100(<<position * 100, duration>>))
    ELSE BarCall(FALSE, <<0, 1>>)

\* Entity values and configured targets / bounds explored
PctValues == {0 - 50, 0, 50, 150}
PctTargets == {0 - 10, 0, 100}

PctIdle == pct_in = <<>> /\ pct_call = "" /\ pct_out = <<>>

\* An entity value, a target (or minimum) and a maximum
PctInit ==
    /\ pct_in \in PctValues \X PctTargets \X PctTargets
    /\ pct_call = "" /\ pct_out = <<>>

\* GaugeWidget.render with min = pct_in[2], max = pct_in[3]
PctGauge ==
    /\ pct_call = ""
    /\ pct_call' = "GaugeWidget"
    /\ pct_out' = BarCall(TRUE, GaugePercent(pct_in[1], pct_in[2], pct_in[3]))
    /\ UNCHANGED pct_in
    /\ UNCHANGED notPct

\* ProgressWidget.render with target = pct_in[2]
PctProgress ==
    /\ pct_call = ""
    /\ pct_call' = "ProgressWidget"
    /\ pct_out' = BarCall(TRUE, ProgressPercent(pct_in[1], TargetOr100(pct_in[2])))
    /\ UNCHANGED pct_in
    /\ UNCHANGED notPct

\* MultiProgressWidget.render for one item with target = pct_in[2]
PctMultiProgress ==
    /\ pct_call = ""
    /\ pct_call' = "MultiProgressWidget"
    /\ pct_out' = BarCall(TRUE, ProgressPercent(pct_in[1], pct_in[2]))
    /\ UNCHANGED pct_in
    /\ UNCHANGED notPct

\* MediaWidget.render with media_position = pct_in[1], media_duration = pct_in[2]
PctMedia ==
    /\ pct_call = ""
    /\ pct_call' = "MediaWidget"
    /\ pct_out' = MediaBar(pct_in[1], pct_in[2])
    /\ UNCHANGED pct_in
    /\ UNCHANGED notPct

\* ========================================================================
\* widgets/gauge.py, widgets/progress.py, widgets/fullscreen.py : what a
\* widget object keeps from one render to the next
\* ========================================================================
\* WidgetConfig with the options that matter here: the widget type, whether
\* an entity is configured, the unit, image_url and image_path options ("" =
\* not given)
WidgetConfig(kind, has_entity, unit, image_url, image_path) ==
    [kind |-> kind, has_entity |-> has_entity, unit |-> unit,
     image_url |-> image_url, image_path |-> image_path]

\* __init__ of GaugeWidget / ProgressWidget / FullscreenWidget: the fields of
\* the new object (cached_image "" and last_source <<>> stand for None)
NewWidget(config) ==
    [config |-> config, unit |-> config.unit, cached_image |-> "", last_source |-> <<>>]

\* An entity state: its value (<<>> when it is not a number), its
\* unit_of_measurement and entity_picture attributes ("" = absent)
EntityState(raw, unit, picture) == [raw |-> raw, unit |-> unit, picture |-> picture]

\* What hass provides to one render: the entity's state (<<>> when the
\* entity is missing), the URLs whose image the coordinator holds, and the
\* image files on disk
Snapshot(state, url_cache, files) ==
    [state |-> state, url_cache |-> url_cache, files |-> files]

\* The draw calls of a render, as far as they depend on the snapshot: the
\* value text, the unit appended to it, and the image drawn ("" = the
\* placeholder)
Drawing(kind, value, unit, image_drawn) ==
    [kind |-> kind, value |-> value, unit |-> unit, image |-> image_drawn]

\* get_entity_state(hass)
GetEntityState(self, snap) == IF self.config.has_entity THEN snap.state ELSE <<>>

\* if not self.unit: self.unit = state.attributes.get("unit_of_measurement", "")
AdoptUnit(self, state) ==
    IF state # <<>> /\ self.unit = "" THEN [self EXCEPT !.unit = state[1].unit] ELSE self

\* GaugeWidget.render: <<the object afterwards, the drawing>>; the value
\* text is "--" (here <<>>) without a numeric state
GaugeRenderOf(self, snap) ==
    With(GetEntityState(self, snap),
         LAMBDA state :
             With(AdoptUnit(self, state),
                  LAMBDA after :
                      << after,
                         Drawing("gauge",
                                 IF state # <<>> THEN state[1].raw ELSE <<>>,
                                 after.unit, "") >>))

\* ProgressWidget.render: the value text is "0" without a numeric state
ProgressRenderOf(self, snap) ==
    With(GetEntityState(self, snap),
         LAMBDA state :
             With(AdoptUnit(self, state),
                  LAMBDA after :
                      << after,
                         Drawing("progress",
                                 IF state # <<>> /\ state[1].raw # <<>>
                                 THEN state[1].raw ELSE <<0>>,
                                 after.unit, "") >>))

\* FullscreenWidget._load_from_url for an absolute URL: the image the
\* coordinator holds for it, or None
LoadFromUrl(url, snap) == IF url \in snap.url_cache THEN url ELSE ""

\* FullscreenWidget._load_from_file
LoadFromFile(path, snap) == IF path \in snap.files THEN path ELSE ""

\* The branch `if source_key != self._last_source` of _get_image
CachedLoad(self, source_key, loaded) ==
    IF source_key # self.last_source
    THEN <<[self EXCEPT !.cached_image = loaded, !.last_source = source_key], loaded>>
    ELSE <<self, self.cached_image>>

\* FullscreenWidget._get_image: <<the object afterwards, the image>>
GetImage(self, snap) ==
    IF /\ self.config.has_entity /\ snap.state # <<>>
       /\ snap.state[1].picture # ""
    THEN <<self, LoadFromUrl(snap.state[1].picture, snap)>>
    ELSE IF self.config.image_url # ""
    THEN CachedLoad(self, <<"url", self.config.image_url>>,
                    LoadFromUrl(self.config.image_url, snap))
    ELSE IF self.config.image_path # ""
    THEN CachedLoad(self, <<"path", self.config.image_path>>,
                    LoadFromFile(self.config.image_path, snap))
    ELSE <<self, self.cached_image>>

\* FullscreenWidget.render
FullscreenRenderOf(self, snap) ==
    With(GetImage(self, snap),
         LAMBDA g : <<g[1], Drawing("fullscreen", <<>>, "", g[2])>>)

\* Values, units, URLs and files explored
EntityValues == {<<>>, <<50>>}
EntityUnits == {"", "kWh"}
PICTURE_URL == "http://host/picture.png"
CONFIG_URL == "http://host/configured.png"
CONFIG_PATH == "/config/www/configured.png"

Snapshots ==
    {Snapshot(s, c, f) :
        s \in {<<>>} \cup {<<EntityState(r, u, p)>> :
                              r \in EntityValues, u \in EntityUnits,
                              p \in {"", PICTURE_URL}},
        c \in SUBSET {PICTURE_URL, CONFIG_URL},
        f \in SUBSET {CONFIG_PATH}}

WidgetConfigs ==
    {WidgetConfig(k, TRUE, u, "", "") : k \in {"gauge", "progress"}, u \in {"", "%"}}
      \cup {WidgetConfig("fullscreen", e, "", s[1], s[2]) :
               e \in BOOLEAN,
               s \in {<<"", "">>, <<CONFIG_URL, "">>, <<"", CONFIG_PATH>>}}

WidIdle ==
    /\ wconfig = <<>> /\ widget = <<>> /\ snapshot = <<>> /\ wout = <<>>

\* A widget is built from its configuration
WidInit ==
    /\ wconfig \in WidgetConfigs
    /\ widget = NewWidget(wconfig)
    /\ snapshot = <<>> /\ wout = <<>>

\* GaugeWidget.render against a snapshot
GaugeRender ==
    /\ wconfig.kind = "gauge"
    /\ \E snap \in Snapshots :
        /\ snapshot' = snap
        /\ widget' = GaugeRenderOf(widget, snap)[1]
        /\ wout' = GaugeRenderOf(widget, snap)[2]
    /\ UNCHANGED wconfig
    /\ UNCHANGED notWid

\* ProgressWidget.render against a snapshot
ProgressRender ==
    /\ wconfig.kind = "progress"
    /\ \E snap \in Snapshots :
        /\ snapshot' = snap
        /\ widget' = ProgressRenderOf(widget, snap)[1]
        /\ wout' = ProgressRenderOf(widget, snap)[2]
    /\ UNCHANGED wconfig
    /\ UNCHANGED notWid

\* FullscreenWidget.render against a snapshot
FullscreenRender ==
    /\ wconfig.kind = "fullscreen"
    /\ \E snap \in Snapshots :
        /\ snapshot' = snap
        /\ widget' = FullscreenRenderOf(widget, snap)[1]
        /\ wout' = FullscreenRenderOf(widget, snap)[2]
    /\ UNCHANGED wconfig
    /\ UNCHANGED notWid

\* ========================================================================
\* coordinator.py : GeekMagicCoordinator;  camera.py : camera_image
\* ========================================================================
\* The options that matter here: the number of configured screens (one
\* layout is built per screen) and the screen cycle interval in seconds
Options(screens, cycle_interval) == [screens |-> screens, cycle_interval |-> cycle_interval]

\* _setup_screens: "ensure current screen is valid" for screen_count layouts
SetupScreens(cur, screen_count) == IF cur >= screen_count THEN 0 ELSE cur

\* Mutant of NextScreen: no wrap at the last screen
NextScreen_NoWrap(cur, screen_count) == cur + 1

\* async_next_screen: (self._current_screen + 1) % len(self._layouts)
NextScreen(cur, screen_count) == (cur + 1) % screen_count

\* async_previous_screen: (self._current_screen - 1) % len(self._layouts)
PrevScreen(cur, screen_count) == (cur - 1) % screen_count

\* Mutant of ValidIndex: the upper bound is not checked
ValidIndex_NoUpper(screen_index, screen_count) == 0 <= screen_index

\* async_set_screen: 0 <= screen_index < len(self._layouts)
ValidIndex(screen_index, screen_count) ==
    0 <= screen_index /\ screen_index < screen_count

\* Mutant of CycleDue: the time since the last change is not looked at
CycleDue_Always(cycle_interval, screen_count, time, last_change) ==
    cycle_interval > 0 /\ screen_count > 1

\* _async_update_data: the auto-cycling condition
CycleDue(cycle_interval, screen_count, time, last_change) ==
    /\ cycle_interval > 0 /\ screen_count > 1
    /\ time - last_change >= cycle_interval

\* The frame a refresh renders: the layout of the current screen, or the
\* empty canvas when there is no layout for it
Frame(cur, screen_count) ==
    IF screen_count > 0 /\ 0 <= cur /\ cur < screen_count THEN <<"screen", cur>>
    ELSE <<"blank", 0>>

\* Mutant of StoredImage: the PNG is kept only by a refresh that uploads
StoredImage_Late(previous, frame) == previous

\* self._last_image = self.renderer.to_png(img)
StoredImage(previous, frame) == <<frame>>

MaxScreens == 3
MaxCycle == 2
MaxTime == 3

CoordIdle ==
    /\ options = <<>> /\ layouts = 0 /\ current_screen = 0
    /\ last_screen_change = 0 /\ clock = 0 /\ last_image = <<>>
    /\ refresh_pc = "idle" /\ update_result = "" /\ camera_out = <<"none", <<>>>>

\* GeekMagicCoordinator.__init__ at time 0, for options with any number of
\* screens
CoordInit ==
    /\ options \in {Options(n, c) : n \in 0..MaxScreens, c \in 0..MaxCycle}
    /\ layouts = options.screens
    /\ current_screen = SetupScreens(0, options.screens)
    /\ last_screen_change = 0 /\ clock = 0 /\ last_image = <<>>
    /\ refresh_pc = "idle" /\ update_result = "" /\ camera_out = <<"none", <<>>>>

\* time.time() moves on
CoordTick ==
    /\ clock < MaxTime
    /\ clock' = clock + 1
    /\ UNCHANGED <<options, layouts, current_screen, last_screen_change, last_image,
                   refresh_pc, update_result, camera_out>>
    /\ UNCHANGED notCoord

\* async_set_screen(screen_index), as a parameterised step
SetScreen(screen_index) ==
    /\ IF ValidIndex(screen_index, layouts)
       THEN /\ current_screen' = screen_index
            /\ last_screen_change' = clock
       ELSE UNCHANGED <<current_screen, last_screen_change>>
    /\ UNCHANGED <<options, layouts, clock, last_image, refresh_pc, update_result,
                   camera_out>>
    /\ UNCHANGED notCoord

\* async_set_screen with any integer index
CoordSetScreen == \E screen_index \in (0 - 1)..(MaxScreens + 1) : SetScreen(screen_index)

\* async_next_screen
CoordNextScreen ==
    IF layouts > 0 THEN SetScreen(NextScreen(current_screen, layouts))
    ELSE UNCHANGED vars

\* async_previous_screen
CoordPreviousScreen ==
    IF layouts > 0 THEN SetScreen(PrevScreen(current_screen, layouts))
    ELSE UNCHANGED vars

\* update_options(options): the screens are rebuilt
CoordUpdateOptions ==
    /\ \E n \in 0..MaxScreens, c \in 0..MaxCycle :
        /\ options' = Options(n, c)
        /\ layouts' = n
        /\ current_screen' = SetupScreens(current_screen, n)
    /\ UNCHANGED <<last_screen_change, clock, last_image, refresh_pc, update_result,
                   camera_out>>
    /\ UNCHANGED notCoord

\* _async_update_data up to `await self.device.upload_and_display`: auto
\* cycling, rendering (which may raise), the PNG for the preview
CoordRefresh ==
    /\ refresh_pc = "idle"
    /\ IF CycleDue(options.cycle_interval, layouts, clock, last_screen_change)
       THEN /\ current_screen' = NextScreen(current_screen, layouts)
            /\ last_screen_change' = clock
       ELSE UNCHANGED <<current_screen, last_screen_change>>
    /\ \E rendered \in BOOLEAN :
        IF rendered
        THEN /\ last_image' = StoredImage(last_image, Frame(current_screen', layouts))
             /\ refresh_pc' = "upload"
             /\ update_result' = ""
        ELSE /\ UNCHANGED <<last_image, refresh_pc>>
             /\ update_result' = "UpdateFailed"
    /\ UNCHANGED <<options, layouts, clock, camera_out>>
    /\ UNCHANGED notCoord

\* The upload returns or raises
CoordUpload ==
    /\ refresh_pc = "upload"
    /\ refresh_pc' = "idle"
    /\ \E uploaded \in BOOLEAN :
        update_result' = IF uploaded THEN "success" ELSE "UpdateFailed"
    /\ UNCHANGED <<options, layouts, current_screen, last_screen_change, clock,
                   last_image, camera_out>>
    /\ UNCHANGED notCoord

\* GeekMagicPreviewCamera.camera_image: camera_out is <<"none", <<>>>> before
\* any call, then <<"returned", r>> for the last call's result r (<<>> for None)
CameraImage ==
    /\ camera_out' = <<"returned", last_image>>
    /\ UNCHANGED <<options, layouts, current_screen, last_screen_change, clock,
                   last_image, refresh_pc, update_result>>
    /\ UNCHANGED notCoord

\* ========================================================================
\* config_flow.py : GeekMagicOptionsFlow
\* ========================================================================
\* A widget entry of a screen: its type and slot (entity, label and the
\* widget's own options do not steer the flow)
WidgetEntry(type, slot) == [type |-> type, slot |-> slot]

\* A screen: its layout and its list of widgets (the name does not steer
\* the flow)
ScreenConfig(layout, widgets) == [layout |-> layout, widgets |-> widgets]

\* Options in the old format: a layout and widgets, no list of screens
LegacyOptions(cycle_interval, layout, widgets) ==
    [has_screens |-> FALSE, cycle_interval |-> cycle_interval, screens |-> <<>>,
     layout |-> layout, widgets |-> widgets]

\* Options in the multi-screen format
ScreenOptions(cycle_interval, screens) ==
    [has_screens |-> TRUE, cycle_interval |-> cycle_interval, screens |-> screens,
     layout |-> "", widgets |-> <<>>]

\* The slot counts of LAYOUT_OPTIONS, and 4 for any other layout
SlotCount(layout) ==
    CASE layout = "grid_2x2" -> 4
      [] layout = "grid_2x3" -> 6
      [] layout = "hero" -> 4
      [] layout = "split" -> 2
      [] OTHER -> 4

\* _migrate_options: the options the flow works on
MigrateOptions(stored) ==
    IF stored.has_screens THEN stored
    ELSE ScreenOptions(stored.cycle_interval,
                       <<ScreenConfig(stored.layout, stored.widgets)>>)

\* _migrate_options returns dict(options) when the options hold a list of
\* screens: a new dict whose list of screens is the stored list itself
SharesScreens(stored) == stored.has_screens

\* Mutant of PreservedWidgets: every widget survives a layout change
PreservedWidgets_All(old_widgets, old_layout, new_layout) == old_widgets

\* async_step_edit_screen: the widgets kept when the layout may change
PreservedWidgets(old_widgets, old_layout, new_layout) ==
    IF old_layout # new_layout
    THEN SelectSeq(old_widgets, LAMBDA w : w.slot < SlotCount(new_layout))
    ELSE old_widgets

\* [w for w in widgets if w.get("slot") != slot]
WithoutSlot(widgets, slot) == SelectSeq(widgets, LAMBDA w : w.slot # slot)

\* Mutant of DeleteOffered: a delete entry for every screen
DeleteOffered_Always(screens) == Len(screens) > 0

\* async_step_manage_screens: delete entries are in the menu only when
\* there is more than one screen
DeleteOffered(screens) == Len(screens) > 1

\* _finish_screen_config: the list of screens after the screen is put in
FinishedScreens(editing, index, screens, config) ==
    IF editing /\ index < Len(screens)
    THEN [screens EXCEPT ![index + 1] = config]
    ELSE Append(screens, config)

\* screens.pop(index)
PoppedScreens(screens, index) ==
    [at \in 1..(Len(screens) - 1) |-> IF at <= index THEN screens[at] ELSE screens[at + 1]]

MaxFlowScreens == 2
FlowLayouts == {"split"}
FlowWidgetTypes == {"clock"}
FlowCycles == {0, 30}

\* The options of a fresh entry, and old-format options with one widget
StoredOptions ==
    {LegacyOptions(30, "grid_2x2", <<WidgetEntry("clock", s)>>) : s \in 0..3}

NoConfig == ScreenConfig("", <<>>)

FlowIdle ==
    /\ entry_options = ScreenOptions(0, <<>>) /\ flow_step = "none"
    /\ flow_options = ScreenOptions(0, <<>>) /\ aliased = FALSE
    /\ current_screen_index = 0 /\ current_slot = 0 /\ screen_config = NoConfig
    /\ current_widget_type = "" /\ editing_screen = FALSE /\ slot_forms = <<>>

\* A config entry whose options no flow has yet touched; no flow is open
FlowInit ==
    /\ entry_options \in StoredOptions /\ flow_step = "none"
    /\ flow_options = ScreenOptions(0, <<>>) /\ aliased = FALSE
    /\ current_screen_index = 0 /\ current_slot = 0 /\ screen_config = NoConfig
    /\ current_widget_type = "" /\ editing_screen = FALSE /\ slot_forms = <<>>

\* The list of screens of self._options is replaced or changed in place; a
\* change in place is one of the stored list when the two are one list
SetScreens(screens) ==
    /\ flow_options' = [flow_options EXCEPT !.screens = screens]
    /\ entry_options' = IF aliased THEN [entry_options EXCEPT !.screens = screens]
                        ELSE entry_options

\* async_create_entry(data=self._options): the options are stored and the
\* flow is over
CreateEntry(data) ==
    /\ entry_options' = data
    /\ flow_step' = "none"
    /\ flow_options' = ScreenOptions(0, <<>>) /\ aliased' = FALSE
    /\ current_screen_index' = 0 /\ current_slot' = 0 /\ screen_config' = NoConfig
    /\ current_widget_type' = "" /\ editing_screen' = FALSE /\ slot_forms' = <<>>

\* The options flow is opened: __init__ and async_step_init without input
FlowStart ==
    /\ flow_step = "none"
    /\ flow_step' = "init"
    /\ flow_options' = MigrateOptions(entry_options)
    /\ aliased' = SharesScreens(entry_options)
    /\ UNCHANGED <<entry_options, current_screen_index, current_slot, screen_config,
                   current_widget_type, editing_screen, slot_forms>>
    /\ UNCHANGED notFlow

\* The user leaves the flow at any form
FlowAbandon ==
    /\ flow_step # "none"
    /\ flow_step' = "none"
    /\ flow_options' = ScreenOptions(0, <<>>) /\ aliased' = FALSE
    /\ current_screen_index' = 0 /\ current_slot' = 0 /\ screen_config' = NoConfig
    /\ current_widget_type' = "" /\ editing_screen' = FALSE /\ slot_forms' = <<>>
    /\ UNCHANGED entry_options
    /\ UNCHANGED notFlow

\* async_step_init with the chosen action
FlowInitSubmit ==
    /\ flow_step = "init"
    /\ flow_options' = MigrateOptions(entry_options)
    /\ aliased' = SharesScreens(entry_options)
    /\ flow_step' \in {"global_settings", "manage_screens"}
    /\ UNCHANGED <<entry_options, current_screen_index, current_slot, screen_config,
                   current_widget_type, editing_screen, slot_forms>>
    /\ UNCHANGED notFlow

\* async_step_global_settings with the intervals
FlowGlobalSubmit ==
    /\ flow_step = "global_settings"
    /\ \E cycle_interval \in FlowCycles :
        CreateEntry([flow_options EXCEPT !.cycle_interval = cycle_interval])
    /\ UNCHANGED notFlow

\* async_step_manage_screens with "add" (while the model's bound allows)
FlowManageAdd ==
    /\ flow_step = "manage_screens"
    /\ Len(flow_options.screens) < MaxFlowScreens
    /\ editing_screen' = FALSE
    /\ flow_step' = "add_screen"
    /\ UNCHANGED <<entry_options, flow_options, aliased, current_screen_index,
                   current_slot, screen_config, current_widget_type, slot_forms>>
    /\ UNCHANGED notFlow

\* async_step_manage_screens with "done"
FlowManageDone ==
    /\ flow_step = "manage_screens"
    /\ CreateEntry(flow_options)
    /\ UNCHANGED notFlow

\* async_step_manage_screens with "edit_<i>"
FlowManageEdit ==
    /\ flow_step = "manage_screens"
    /\ \E index \in 0..(Len(flow_options.screens) - 1) :
        current_screen_index' = index
    /\ editing_screen' = TRUE
    /\ flow_step' = "edit_screen"
    /\ UNCHANGED <<entry_options, flow_options, aliased, current_slot, screen_config,
                   current_widget_type, slot_forms>>
    /\ UNCHANGED notFlow

\* async_step_manage_screens with "delete_<i>", one of the menu's entries
FlowManageDelete ==
    /\ flow_step = "manage_screens"
    /\ DeleteOffered(flow_options.screens)
    /\ \E index \in 0..(Len(flow_options.screens) - 1) :
        current_screen_index' = index
    /\ flow_step' = "delete_screen"
    /\ UNCHANGED <<entry_options, flow_options, aliased, current_slot, screen_config,
                   current_widget_type, editing_screen, slot_forms>>
    /\ UNCHANGED notFlow

\* async_step_configure_slot without input, for the first slot of a walk
StartWalk(config) ==
    /\ screen_config' = config
    /\ current_slot' = 0
    /\ slot_forms' = <<0>>
    /\ flow_step' = "configure_slot"

\* async_step_add_screen with a name and a layout
FlowAddSubmit ==
    /\ flow_step = "add_screen"
    /\ \E layout \in FlowLayouts : StartWalk(ScreenConfig(layout, <<>>))
    /\ UNCHANGED <<entry_options, flow_options, aliased, current_screen_index,
                   current_widget_type, editing_screen>>
    /\ UNCHANGED notFlow

\* async_step_edit_screen with a name and a layout
FlowEditSubmit ==
    /\ flow_step = "edit_screen"
    /\ \E new_layout \in FlowLayouts :
        \E screen \in {flow_options.screens[current_screen_index + 1]} :
            StartWalk(ScreenConfig(new_layout,
                PreservedWidgets(screen.widgets, screen.layout, new_layout)))
    /\ UNCHANGED <<entry_options, flow_options, aliased, current_screen_index,
                   current_widget_type, editing_screen>>
    /\ UNCHANGED notFlow

\* _finish_screen_config, then the manage_screens menu
FinishScreenConfig(config) ==
    /\ SetScreens(FinishedScreens(editing_screen, current_screen_index,
                                  flow_options.screens, config))
    /\ flow_step' = "manage_screens"
    /\ UNCHANGED slot_forms

\* "Move to next slot or finish", the screen now having these widgets
NextSlotOrFinish(widgets) ==
    \E config \in {[screen_config EXCEPT !.widgets = widgets]} :
        /\ screen_config' = config
        /\ current_slot' = current_slot + 1
        /\ IF current_slot + 1 < SlotCount(config.layout)
           THEN /\ flow_step' = "configure_slot"
                /\ slot_forms' = Append(slot_forms, current_slot + 1)
                /\ UNCHANGED <<entry_options, flow_options>>
           ELSE FinishScreenConfig(config)

\* async_step_configure_slot with "empty"
FlowSlotEmpty ==
    /\ flow_step = "configure_slot"
    /\ NextSlotOrFinish(WithoutSlot(screen_config.widgets, current_slot))
    /\ UNCHANGED <<aliased, current_screen_index, current_widget_type, editing_screen>>
    /\ UNCHANGED notFlow

\* async_step_configure_slot with a widget type
FlowSlotWidget ==
    /\ flow_step = "configure_slot"
    /\ current_widget_type' \in FlowWidgetTypes
    /\ flow_step' = "widget_options"
    /\ UNCHANGED <<entry_options, flow_options, aliased, current_screen_index,
                   current_slot, screen_config, editing_screen, slot_forms>>
    /\ UNCHANGED notFlow

\* async_step_widget_options with the widget's options
FlowWidgetSubmit ==
    /\ flow_step = "widget_options"
    /\ NextSlotOrFinish(Append(WithoutSlot(screen_config.widgets, current_slot),
                               WidgetEntry(current_widget_type, current_slot)))
    /\ UNCHANGED <<aliased, current_screen_index, current_widget_type, editing_screen>>
    /\ UNCHANGED notFlow

\* async_step_delete_screen with the confirmation or without it
FlowDeleteSubmit ==
    /\ flow_step = "delete_screen"
    /\ \E confirm \in BOOLEAN :
        IF confirm
        THEN SetScreens(PoppedScreens(flow_options.screens, current_screen_index))
        ELSE UNCHANGED <<entry_options, flow_options>>
    /\ flow_step' = "manage_screens"
    /\ UNCHANGED <<aliased, current_screen_index, current_slot, screen_config,
                   current_widget_type, editing_screen, slot_forms>>
    /\ UNCHANGED notFlow

\* ========================================================================
\* Specifications
\* ========================================================================

InitSeg == SegInit /\ OhlcIdle /\ JpegIdle /\ LayIdle /\ ImgIdle /\ FontIdle /\ FitIdle /\ ColorIdle /\ ScaleIdle /\ PctIdle /\ WidIdle /\ CoordIdle /\ FlowIdle
NextSeg == SegEmpty \/ SegEmoji \/ SegKeycap \/ SegPlain \/ SegFlush
SpecSeg == InitSeg /\ [][NextSeg]_vars

InitOhlc == OhlcInit /\ SegIdle /\ JpegIdle /\ LayIdle /\ ImgIdle /\ FontIdle /\ FitIdle /\ ColorIdle /\ ScaleIdle /\ PctIdle /\ WidIdle /\ CoordIdle /\ FlowIdle
NextOhlc == OhlcEmpty \/ OhlcBucket \/ OhlcNoData \/ OhlcEmit
SpecOhlc == InitOhlc /\ [][NextOhlc]_vars

InitLayout == LayInit /\ SegIdle /\ OhlcIdle /\ JpegIdle /\ ImgIdle /\ FontIdle /\ FitIdle /\ ColorIdle /\ ScaleIdle /\ PctIdle /\ WidIdle /\ CoordIdle /\ FlowIdle
NextLayout == LayMeasure \/ LayRender
SpecLayout == InitLayout /\ [][NextLayout]_vars

InitJpeg == JpegInit /\ SegIdle /\ OhlcIdle /\ LayIdle /\ ImgIdle /\ FontIdle /\ FitIdle /\ ColorIdle /\ ScaleIdle /\ PctIdle /\ WidIdle /\ CoordIdle /\ FlowIdle
NextJpeg == JpegFirstEncode \/ JpegReencode \/ JpegReturn
\* to_jpeg is straight-line sequential code: whenever a step is possible the
\* interpreter takes it.
SpecJpeg == InitJpeg /\ [][NextJpeg]_vars /\ WF_vars(NextJpeg)

InitImg == ImgInit /\ SegIdle /\ OhlcIdle /\ JpegIdle /\ LayIdle /\ FontIdle /\ FitIdle /\ ColorIdle /\ ScaleIdle /\ PctIdle /\ WidIdle /\ CoordIdle /\ FlowIdle
NextImg == ImgRender \/ ImgDraw
SpecImg == InitImg /\ [][NextImg]_vars

InitFont == FontInit /\ SegIdle /\ OhlcIdle /\ JpegIdle /\ LayIdle /\ ImgIdle /\ FitIdle /\ ColorIdle /\ ScaleIdle /\ PctIdle /\ WidIdle /\ CoordIdle /\ FlowIdle
NextFont == FontLoad \/ FontLoadEmoji \/ FontLoadMdi
SpecFont == InitFont /\ [][NextFont]_vars

InitFit == FitInit /\ SegIdle /\ OhlcIdle /\ JpegIdle /\ LayIdle /\ ImgIdle /\ FontIdle /\ ColorIdle /\ ScaleIdle /\ PctIdle /\ WidIdle /\ CoordIdle /\ FlowIdle
NextFit == FitCall \/ FitStep \/ FitCache
\* The call, once made, runs to its return
SpecFit == InitFit /\ [][NextFit]_vars /\ WF_vars(NextFit)

InitCache == CacheInit /\ SegIdle /\ OhlcIdle /\ JpegIdle /\ LayIdle /\ ImgIdle /\ FontIdle /\ ColorIdle /\ ScaleIdle /\ PctIdle /\ WidIdle /\ CoordIdle /\ FlowIdle
NextCache == FitCall \/ FitStep \/ FitCache \/ GetScaledFont
SpecCache == InitCache /\ [][NextCache]_vars

InitColor == ColorInit /\ SegIdle /\ OhlcIdle /\ JpegIdle /\ LayIdle /\ ImgIdle /\ FontIdle /\ FitIdle /\ ScaleIdle /\ PctIdle /\ WidIdle /\ CoordIdle /\ FlowIdle
NextColor == ColorDim \/ ColorBlend
SpecColor == InitColor /\ [][NextColor]_vars

InitScale == ScaleInit /\ SegIdle /\ OhlcIdle /\ JpegIdle /\ LayIdle /\ ImgIdle /\ FontIdle /\ FitIdle /\ ColorIdle /\ PctIdle /\ WidIdle /\ CoordIdle /\ FlowIdle
NextScale == ScaleSparkline \/ ScaleCandles \/ ScaleGauge
SpecScale == InitScale /\ [][NextScale]_vars

InitPct == PctInit /\ SegIdle /\ OhlcIdle /\ JpegIdle /\ LayIdle /\ ImgIdle /\ FontIdle /\ FitIdle /\ ColorIdle /\ ScaleIdle /\ WidIdle /\ CoordIdle /\ FlowIdle
NextPct == PctGauge \/ PctProgress \/ PctMultiProgress \/ PctMedia
SpecPct == InitPct /\ [][NextPct]_vars

InitWid == WidInit /\ SegIdle /\ OhlcIdle /\ JpegIdle /\ LayIdle /\ ImgIdle /\ FontIdle /\ FitIdle /\ ColorIdle /\ ScaleIdle /\ PctIdle /\ CoordIdle /\ FlowIdle
NextWid == GaugeRender \/ ProgressRender \/ FullscreenRender
SpecWid == InitWid /\ [][NextWid]_vars

InitCoord == CoordInit /\ SegIdle /\ OhlcIdle /\ JpegIdle /\ LayIdle /\ ImgIdle /\ FontIdle /\ FitIdle /\ ColorIdle /\ ScaleIdle /\ PctIdle /\ WidIdle /\ FlowIdle
NextCoord ==
    \/ CoordTick \/ CoordSetScreen \/ CoordNextScreen \/ CoordPreviousScreen
    \/ CoordUpdateOptions \/ CoordRefresh \/ CoordUpload \/ CameraImage
SpecCoord == InitCoord /\ [][NextCoord]_vars

InitFlow == FlowInit /\ SegIdle /\ OhlcIdle /\ JpegIdle /\ LayIdle /\ ImgIdle /\ FontIdle /\ FitIdle /\ ColorIdle /\ ScaleIdle /\ PctIdle /\ WidIdle /\ CoordIdle
NextFlow ==
    \/ FlowStart \/ FlowAbandon \/ FlowInitSubmit \/ FlowGlobalSubmit
    \/ FlowManageAdd \/ FlowManageDone \/ FlowManageEdit \/ FlowManageDelete
    \/ FlowAddSubmit \/ FlowEditSubmit \/ FlowSlotEmpty \/ FlowSlotWidget
    \/ FlowWidgetSubmit \/ FlowDeleteSubmit
SpecFlow == InitFlow /\ [][NextFlow]_vars

\* ========================================================================
\* Claims about segment_text
\* ========================================================================

\* The texts of the returned segments, concatenated in order
SegmentsJoined == Concat([k \in 1..Len(segments) |-> segments[k].text])

\* C1: for every input string, concatenating the text of the segments
\* returned by segment_text, in order, equals the input string exactly.
C1_RoundTrip == segpc = "done" => SegmentsJoined = text

\* ========================================================================
\* Claims about aggregate_ohlc
\* ========================================================================

\* Window start as the claims state it: last timestamp - N * interval
WindowStart == timestamped_values[Len(timestamped_values)][1]
                   - candle_count * interval_seconds

\* The bucket the claims assign to an in-window timestamp
ClaimedBucket(ts) ==
    LET q == (ts - WindowStart) \div interval_seconds
    IN IF q < candle_count - 1 THEN q ELSE candle_count - 1

\* The values, in input order, of the samples the claims assign to bucket k
ClaimedValues(k) ==
    LET sel == SelectSeq(timestamped_values,
                   LAMBDA s : s[1] >= WindowStart /\ ClaimedBucket(s[1]) = k)
    IN [j \in 1..Len(sel) |-> sel[j][2]]

\* Largest / smallest element of a non-empty sequence, by its defining property
GreatestOf(s) == CHOOSE v \in {s[j] : j \in 1..Len(s)} : \A j \in 1..Len(s) : s[j] <= v
LeastOf(s) == CHOOSE v \in {s[j] : j \in 1..Len(s)} : \A j \in 1..Len(s) : v <= s[j]

\* The values of the samples strictly before the window start, in input order
BeforeWindow ==
    LET sel == SelectSeq(timestamped_values, LAMBDA s : s[1] < WindowStart)
    IN [j \in 1..Len(sel) |-> sel[j][2]]

BucketRange == 0..(candle_count - 1)

OhlcReturned == ohlcpc = "done"

\* C2 (as stated): for every time-ordered series, positive interval and
\* candle count N, aggregate_ohlc returns exactly N candles.
C2_ExactlyN_Original == OhlcReturned => Len(candles) = candle_count

\* C2 (amended): for every NON-EMPTY time-ordered series, positive interval
\* and candle count N, aggregate_ohlc returns exactly N candles, in
\* chronological bucket order: the k-th candle opens with the first and closes
\* with the last value of the k-th bucket whenever that bucket has samples.
C2_ExactlyN ==
    (OhlcReturned /\ timestamped_values # <<>>) =>
        /\ Len(candles) = candle_count
        /\ \A k \in BucketRange :
              ClaimedValues(k) # <<>> =>
                  /\ candles[k + 1][1] = ClaimedValues(k)[1]
                  /\ candles[k + 1][4] = ClaimedValues(k)[Len(ClaimedValues(k))]

\* C2 witness: three candles returned, two of them from populated buckets
\* that open at different values.
C2_Witness ==
    /\ OhlcReturned /\ candle_count = 3 /\ Len(candles) = 3
    /\ buckets[0] # <<>> /\ buckets[1] = <<>> /\ buckets[2] # <<>>
    /\ candles[1][1] # candles[3][1]

\* C3: every sample with t >= start is placed in bucket
\* min(floor((t - start)/interval), N-1), samples with t < start in no bucket,
\* and each non-empty bucket's candle is (first, max, min, last) of its
\* samples in input order.
C3_Bucketing ==
    (ohlcpc \in {"bucketed", "done"} /\ timestamped_values # <<>>) =>
        /\ DOMAIN buckets = BucketRange
        /\ \A k \in BucketRange : buckets[k] = ClaimedValues(k)
        /\ ohlcpc = "done" =>
              \A k \in BucketRange :
                  buckets[k] # <<>> =>
                      /\ k + 1 \in DOMAIN candles
                      /\ candles[k + 1] = << buckets[k][1], GreatestOf(buckets[k]),
                                             LeastOf(buckets[k]),
                                             buckets[k][Len(buckets[k])] >>

\* C3 witness: a sample before the window was dropped, and the last bucket
\* holds two samples (the last one clamped into it from the end boundary)
\* whose first and last values differ.
C3_Witness ==
    /\ OhlcReturned /\ candle_count = 2 /\ Len(candles) = 2
    /\ BeforeWindow # <<>>
    /\ Len(buckets[1]) = 2
    /\ candles[2][1] # candles[2][4]

\* Index of the first bucket that has samples (candle_count when none has)
FirstPopulated ==
    IF \E k \in BucketRange : buckets[k] # <<>>
    THEN CHOOSE k \in BucketRange :
             buckets[k] # <<>> /\ \A j \in 0..(k - 1) : buckets[j] = <<>>
    ELSE candle_count

\* Close of the nearest populated bucket before k (k has one before it)
EarlierClose(k) ==
    LET j == CHOOSE j \in 0..(k - 1) :
                 buckets[j] # <<>> /\ \A m \in (j + 1)..(k - 1) : buckets[m] = <<>>
    IN buckets[j][Len(buckets[j])]

Flat(v) == <<v, v, v, v>>

\* C4 (as stated): every empty bucket yields a flat candle at the close of
\* the nearest earlier non-empty bucket; an empty bucket that precedes every
\* non-empty bucket is flat at the value of the latest sample strictly before
\* the window start.
C4_CarryForward_Original ==
    (OhlcReturned /\ candles # <<>>) =>
        \A k \in BucketRange :
            buckets[k] = <<>> =>
                IF k > FirstPopulated
                THEN candles[k + 1] = Flat(EarlierClose(k))
                ELSE /\ BeforeWindow # <<>>
                     /\ candles[k + 1] = Flat(BeforeWindow[Len(BeforeWindow)])

\* C4 (amended): as stated, except that an empty bucket preceding every
\* non-empty bucket is flat at the latest sample strictly before the window
\* start when there is one, and otherwise at the first value (the open) of
\* the first non-empty bucket.
C4_CarryForward ==
    (OhlcReturned /\ candles # <<>>) =>
        \A k \in BucketRange :
            buckets[k] = <<>> =>
                IF k > FirstPopulated
                THEN candles[k + 1] = Flat(EarlierClose(k))
                ELSE IF BeforeWindow # <<>>
                     THEN candles[k + 1] = Flat(BeforeWindow[Len(BeforeWindow)])
                     ELSE candles[k + 1] = Flat(buckets[FirstPopulated][1])

\* C4 witness: the first bucket is empty and is seeded by the later of two
\* different samples before the window, and a later empty bucket carries the
\* close of a populated one.
C4_Witness ==
    /\ OhlcReturned /\ candle_count = 2 /\ Len(candles) = 2
    /\ buckets[0] = <<>>
    /\ Len(BeforeWindow) = 2 /\ BeforeWindow[1] # BeforeWindow[2]
    /\ candles[1] = Flat(BeforeWindow[2])

\* ========================================================================
\* Claims about the component tree
\* ========================================================================

\* Box b = <<x, y, width, height>> lies inside box p
Inside(b, p) ==
    /\ b[1] >= p[1] /\ b[2] >= p[2]
    /\ b[1] + b[3] <= p[1] + p[3] /\ b[2] + b[4] <= p[2] + p[4]

\* C5: for every tree and every box with W, H >= 0, each render call on a
\* child receives a box inside the box its parent received, and no render
\* call receives a negative width or height.
C5_LayoutBounds ==
    laypc = "rendered" =>
        \A k \in 1..Len(calls) :
            /\ calls[k].box[3] >= 0 /\ calls[k].box[4] >= 0
            /\ k > 1 => Inside(calls[k].box, calls[k].parent)

\* Positions in the present children of a Row at which a Spacer stands
SpacerAt(children) == {k \in 1..Len(children) : children[k].kind = "Spacer"}

\* Sum of the widths the non-Spacer children of a Row measure in its inner box
FixedWidth(children, inner_w, inner_h) ==
    SumOver([k \in 1..Len(children) |->
                IF children[k].kind = "Spacer" THEN 0
                ELSE Measure(children[k], inner_w, inner_h)[1]],
            Len(children))

\* The tree is a Row with exactly one Spacer among its present children, and
\* it has been rendered
RowWithOneSpacer ==
    /\ laypc = "rendered" /\ tree.kind = "Row"
    /\ Cardinality(SpacerAt(Present(tree.children))) = 1

\* Width the Spacer's render received: the children of the root Row are
\* leaves, so the k-th present child's call is calls[k + 1]
SpacerWidth ==
    LET s == CHOOSE k \in SpacerAt(Present(tree.children)) : TRUE
    IN calls[s + 1].box[3]

\* Inner width W, fixed widths w and gaps g of the rendered root Row
RowW == box[3] - tree.padding * 2
Roww == FixedWidth(Present(tree.children), box[3] - tree.padding * 2,
                   box[4] - tree.padding * 2)
Rowg == tree.gap * (Len(Present(tree.children)) - 1)

\* C6: in a Row of inner width W whose non-Spacer children measure w in
\* total, with exactly one Spacer and gaps g in total, the Spacer's render
\* receives width W - w - g when W >= w + g and 0 when W <= w + g.
C6_SpacerWidth ==
    RowWithOneSpacer =>
        /\ Len(calls) = Len(Present(tree.children)) + 1
        /\ SpacerWidth >= 0
        /\ RowW >= Roww + Rowg => SpacerWidth = RowW - Roww - Rowg
        /\ RowW <= Roww + Rowg => SpacerWidth = 0

\* C6 witness: a Spacer beside another child took up the space left over
C6_Witness ==
    /\ RowWithOneSpacer
    /\ Len(Present(tree.children)) = 2
    /\ RowW > Roww + Rowg
    /\ Roww > 0 /\ Rowg > 0
    /\ SpacerWidth = RowW - Roww - Rowg

\* The tree is an Adaptive with a child to show, and it has been rendered
AdaptiveRendered ==
    /\ laypc = "rendered" /\ tree.kind = "Adaptive"
    /\ Present(tree.children) # <<>>

\* Measured widths of the children of the root Adaptive plus gap * (n - 1)
AdaptiveTotal ==
    LET children == Present(tree.children)
    IN SumOver([k \in 1..Len(children) |->
                   Measure(children[k], box[3] - tree.padding * 2, box[4])[1]],
               Len(children))
       + tree.gap * (Len(children) - 1)

\* Calls on a Row or a Column in the log
LayoutCalls == {k \in 1..Len(calls) : calls[k].kind \in {"Row", "Column"}}

C10_MeasureClamped ==
    laypc \in {"measured", "rendered"} =>
        /\ 0 <= measured[1] /\ measured[1] <= box[3]
        /\ 0 <= measured[2] /\ measured[2] <= box[4]

\* The tree is a Padding; its insets <<top, right, bottom, left>>
PaddingRoot == tree.kind = "Padding"
Insets == Padding_get_padding(tree)

\* max(0, width - left - right) by max(0, height - top - bottom) of the box
ClampedInner ==
    << Max(0, box[3] - Insets[4] - Insets[2]), Max(0, box[4] - Insets[1] - Insets[3]) >>

\* C11: Padding never passes a negative dimension to its child: in measure
\* and in render the child box is max(0, width - left - right) by
\* max(0, height - top - bottom), and when that box has zero width or zero
\* height the child's render is not invoked at all.
C11_PaddingClamp ==
    PaddingRoot =>
        /\ laypc \in {"measured", "rendered"} =>
              LET m == Measure(tree.child, ClampedInner[1], ClampedInner[2])
              IN measured = <<m[1] + Insets[4] + Insets[2], m[2] + Insets[1] + Insets[3]>>
        /\ laypc = "rendered" =>
              IF ClampedInner[1] > 0 /\ ClampedInner[2] > 0
              THEN /\ Len(calls) >= 2
                   /\ calls[2].kind = tree.child.kind
                   /\ calls[2].box = << box[1] + Insets[4], box[2] + Insets[1],
                                        ClampedInner[1], ClampedInner[2] >>
              ELSE Len(calls) = 1

\* C11 witness: the insets exceed the box, a child that measures what it is
\* offered was offered 0 by 0, and its render was skipped
C11_Witness ==
    /\ PaddingRoot /\ laypc = "rendered"
    /\ tree.child.kind = "Sparkline"
    /\ box[3] - Insets[4] - Insets[2] < 0
    /\ measured = <<Insets[4] + Insets[2], Insets[1] + Insets[3]>>
    /\ Len(calls) = 1

\* ========================================================================
\* Claims about Renderer.to_jpeg
\* ========================================================================

\* C8: when max_size is at least the encoded size at the floor quality (20)
\* and the encoded size is non-decreasing in quality, to_jpeg returns bytes
\* whose length is <= max_size.
C8_BoundedSize ==
    (jpc = "done" /\ monotone /\ max_size >= floor_size) => result <= max_size

\* C8 witness: the request was over budget at first, the loop lowered the
\* quality below 20 (the floor itself was skipped) and returned within budget.
C8_Witness ==
    /\ jpc = "done" /\ monotone /\ max_size >= floor_size
    /\ encodes >= 3 /\ current_quality < QUALITY_FLOOR
    /\ result <= max_size /\ max_size < MaxBytes

\* C9: the quality-reduction loop always terminates; it re-encodes, at the
\* quality lowered by 10, only while the result exceeds max_size and the
\* quality is above the floor; on return the result is within max_size or the
\* floor has been reached, the last encoded result being what is returned; and
\* if the first encode is within budget no re-encode happens.
C9_LoopTerminates ==
    /\ <>(jpc = "done")
    /\ [](jpc = "done" => (result <= max_size \/ current_quality <= QUALITY_FLOOR))
    /\ [][(encodes >= 1 /\ encodes' # encodes) =>
             /\ result > max_size /\ current_quality > QUALITY_FLOOR
             /\ current_quality' = current_quality - 10
             /\ encodes' = encodes + 1]_vars
    /\ [][(jpc = "loop" /\ encodes = 1 /\ result <= max_size) =>
             (jpc' = "done" /\ encodes' = 1 /\ result' = result)]_vars
    /\ [][jpc' = "done" => result' = result]_vars

\* C9 witness: the loop ran down to the floor and returned a result that is
\* still over budget.
C9_Witness ==
    /\ jpc = "done" /\ encodes >= 3
    /\ current_quality <= QUALITY_FLOOR /\ result > max_size

\* ========================================================================
\* Claims about rendering in an empty box
\* ========================================================================

\* C12: every component's render completes without raising an error when
\* called with width = 0 or height = 0 (no division by zero in image
\* fitting).
C12_ZeroSizeRender ==
    imgpc = "done" /\ (imgbox[3] = 0 \/ imgbox[4] = 0) => drawn.error = "none"

\* ========================================================================
\* Claims about Row.measure and Column.measure
\* ========================================================================

\* Measures of the present children of the root container in the bounds
\* <<w, h>> it offers them
PresentMeasures(w, h) ==
    LET children == Present(tree.children)
    IN [k \in 1..Len(children) |-> Measure(children[k], w, h)]

\* (k - 1) * gap for the k present children (no gap when there is none)
PresentGaps == tree.gap * Max(0, Len(Present(tree.children)) - 1)

\* Largest of f[1..n], 0 when n = 0
RECURSIVE MaxOver(_, _)
MaxOver(f, n) == IF n = 0 THEN 0 ELSE Max(f[n], MaxOver(f, n - 1))

\* C13: Row.measure returns width min(max_width, 2*padding + sum of the
\* children's measured widths + (k-1)*gap) and height min(max_height, max
\* child height + 2*padding), k being the number of children present (None
\* entries are skipped and contribute no gap); Column.measure is the same
\* with the axes swapped.
C13_FlexMeasure ==
    laypc \in {"measured", "rendered"} =>
        /\ tree.kind = "Row" =>
              LET ms == PresentMeasures(box[3], box[4] - tree.padding * 2)
                  n == Len(ms)
              IN measured =
                   << Min(box[3], 2 * tree.padding
                                  + SumOver([k \in 1..n |-> ms[k][1]], n) + PresentGaps),
                      Min(box[4], MaxOver([k \in 1..n |-> ms[k][2]], n) + 2 * tree.padding) >>
        /\ tree.kind = "Column" =>
              LET ms == PresentMeasures(box[3] - tree.padding * 2, box[4])
                  n == Len(ms)
              IN measured =
                   << Min(box[3], MaxOver([k \in 1..n |-> ms[k][1]], n) + 2 * tree.padding),
                      Min(box[4], 2 * tree.padding
                                  + SumOver([k \in 1..n |-> ms[k][2]], n) + PresentGaps) >>

\* ========================================================================
\* Claims about the grouping done by segment_text
\* ========================================================================

\* Number of codepoints of text covered by the first k segments
EndOf(k) == SumOver([m \in 1..Len(segments) |-> Len(segments[m].text)], k)

\* The segments tile the text: joined in order they give the text back
Tiled == segpc = "done" /\ SegmentsJoined = text

\* A codepoint that directly continues a pictograph
IsContinuation(cp) ==
    cp = ZWJ \/ InSkinToneModifiers(cp) \/ cp = VARIATION_SELECTOR_EMOJI

RECURSIVE Continued(_, _, _)
\* seg[j..] is made of continuations only: a zero-width joiner together with
\* the codepoint after it (alone only when the text ends there), skin-tone
\* modifiers, emoji variation selectors and, after a regional indicator,
\* regional indicators
Continued(seg, j, atEnd) ==
    IF j > Len(seg) THEN TRUE
    ELSE IF seg[j] = ZWJ
    THEN (IF j = Len(seg) THEN atEnd ELSE Continued(seg, j + 2, atEnd))
    ELSE IF InSkinToneModifiers(seg[j]) \/ seg[j] = VARIATION_SELECTOR_EMOJI
    THEN Continued(seg, j + 1, atEnd)
    ELSE IF IsRegionalIndicator(seg[j]) /\ IsRegionalIndicator(seg[1])
    THEN Continued(seg, j + 1, atEnd)
    ELSE FALSE

\* Segment k is a pictograph segment begun by a pictograph-classified codepoint
IsPictographSegment(k) ==
    /\ segments[k].segment_type = "EMOJI"
    /\ is_emoji_codepoint(segments[k].text[1])

\* 'a', U+1F44B U+1F3FD, 'a'
PlainPictographPlain == <<97, 128075, 127997, 97>>

\* C14: a pictograph-classified codepoint and everything that directly
\* continues it (each zero-width joiner with the codepoint after it, skin-tone
\* modifiers, emoji variation selectors) end up in one pictograph segment: the
\* segment holds nothing but such continuations and none is left behind it;
\* the plain text before and after forms separate plain segments, which hold
\* no pictograph codepoint and are never adjacent; plain + (pictograph,
\* skin-tone modifier) + plain yields exactly the three segments plain,
\* pictograph, plain.
C14_Grouping ==
    Tiled =>
        /\ \A k \in 1..Len(segments) :
              /\ segments[k].text # <<>>
              /\ IsPictographSegment(k) =>
                    /\ Continued(segments[k].text, 2, EndOf(k) = Len(text))
                    /\ EndOf(k) < Len(text) => ~IsContinuation(text[EndOf(k) + 1])
              /\ segments[k].segment_type = "TEXT" =>
                    /\ \A j \in 1..Len(segments[k].text) :
                          ~is_emoji_codepoint(segments[k].text[j])
                    /\ k < Len(segments) => segments[k + 1].segment_type = "EMOJI"
        /\ text = PlainPictographPlain =>
              segments = << TextSegment(<<97>>, "TEXT"),
                            TextSegment(<<128075, 127997>>, "EMOJI"),
                            TextSegment(<<97>>, "TEXT") >>

\* C14 witness: plain + (pictograph, skin-tone modifier) + plain was
\* segmented into three segments
C14_Witness ==
    /\ Tiled /\ text = PlainPictographPlain
    /\ Len(segments) = 3 /\ segments[2].text = <<128075, 127997>>

\* C15: regional indicators are grouped into flag pairs: a regional
\* indicator swallows at most one immediately following regional indicator
\* (so a run of 2k of them yields k pictograph segments of two codepoints
\* each), and consecutive distinct pictographs yield separate segments: past
\* its first codepoint a pictograph segment holds a pictograph only right
\* after a zero-width joiner or as the second half of a flag pair.
C15_FlagPairs ==
    segpc = "done" =>
        \A k \in 1..Len(segments) :
            IsPictographSegment(k) =>
                \A j \in 2..Len(segments[k].text) :
                    (InEmojiCodepoints(segments[k].text[j])
                       /\ ~InSkinToneModifiers(segments[k].text[j])) =>
                        \/ segments[k].text[j - 1] = ZWJ
                        \/ /\ j = 2
                           /\ IsRegionalIndicator(segments[k].text[1])
                           /\ IsRegionalIndicator(segments[k].text[2])

\* The digit '1', U+FE0F, U+20E3
Keycap == <<49, VARIATION_SELECTOR_EMOJI, COMBINING_ENCLOSING_KEYCAP>>

\* Positions of text at which a keycap sequence stands outside any pictograph
\* sequence (the digit is not the codepoint taken along by a joiner)
KeycapAt ==
    {p \in 1..Len(text) - 2 :
        /\ InKeycapBase(text[p])
        /\ text[p + 1] = VARIATION_SELECTOR_EMOJI
        /\ text[p + 2] = COMBINING_ENCLOSING_KEYCAP
        /\ p > 1 => text[p - 1] # ZWJ}

\* C16: a digit, '#' or '*' immediately followed by U+FE0F and U+20E3 is
\* emitted as one pictograph segment of exactly those three codepoints,
\* wherever it occurs (including at the very end); one not followed by both
\* stays in the surrounding plain-text run.
C16_Keycap ==
    segpc = "done" =>
        /\ Cardinality({k \in 1..Len(segments) : segments[k].text = Keycap})
             = Cardinality(KeycapAt)
        /\ \A k \in 1..Len(segments) :
              /\ segments[k].text = Keycap => segments[k].segment_type = "EMOJI"
              /\ segments[k].segment_type = "EMOJI" /\ InKeycapBase(segments[k].text[1])
                    => segments[k].text = Keycap

\* ========================================================================
\* Claims about the font loaders
\* ========================================================================
\* Positions in font_paths whose file can be read
Readable(font_paths) == {k \in 1..Len(font_paths) : font_paths[k].path \in font_files}

\* The font the ordered fallback is to return for a positive size
FirstReadable(font_paths, size) ==
    IF Readable(font_paths) = {} THEN DefaultFont
    ELSE LET k == CHOOSE k \in Readable(font_paths) :
                      \A j \in Readable(font_paths) : k <= j
         IN Font(font_paths[k].path, size, font_paths[k].index)

\* C19: _load_font returns the first candidate of its list that loads and
\* the built-in default font when none loads; for every requested size and
\* bold flag it returns a font and never raises; the emoji and icon font
\* loaders return the default font instead of raising.
C19_FontFallback ==
    font_call # <<>> =>
        /\ font_loaded.error = "none"
        /\ (font_call[1] = "_load_font" /\ font_call[2] > 0) =>
               font_loaded.font = FirstReadable(FontPaths(font_call[3]), font_call[2])
        /\ (font_call[1] = "_load_emoji_font" /\ font_call[2] > 0) =>
               font_loaded.font = FirstReadable(<<FontPath(EMOJI_FONT, 0)>>, font_call[2])
        /\ (font_call[1] = "_load_mdi_font" /\ font_call[2] > 0) =>
               font_loaded.font = FirstReadable(<<FontPath(MDI_FONT, 0)>>, font_call[2])

\* ========================================================================
\* Claims about fit_text_font and the font cache
\* ========================================================================
\* Sizes of the call's range at which the text fits max_width x max_height
Fitting ==
    {s \in fit.min_size..fit.max_size : FitsBox(bbox_table[s], fit_limits)}

Largest(S) == CHOOSE s \in S : \A t \in S : t <= s

\* The call has returned a font, for a range with min_size <= max_size
FitReturned == fit_returned # <<>> /\ fit.min_size <= fit.max_size

FitResult ==
    /\ (FitReturned /\ Monotone(bbox_table, fit.min_size..fit.max_size)
          /\ Fitting # {}) =>
           fit_returned[1] = InstalledFont(Largest(Fitting), fit.bold)
    /\ (FitReturned /\ Fitting = {}) =>
           fit_returned[1] = InstalledFont(fit.min_size, fit.bold)

\* C17: fit_text_font terminates; when the text's width and height do not
\* decrease with the font size it returns the font of the largest size in
\* [min_size, max_size] whose box fits max_width x max_height; when no size
\* of the range fits it returns the font at min_size.
C17_FitText == []FitResult /\ <>(fit_returned # <<>>)

\* A search of several iterations that ends strictly inside the range
C17_Witness ==
    /\ FitReturned /\ Monotone(bbox_table, fit.min_size..fit.max_size)
    /\ Fitting # {}
    /\ fit.min_size < Largest(Fitting) /\ Largest(Fitting) < fit.max_size
    /\ fit_returned[1].size = Largest(Fitting)

\* C18: every entry of the font cache under key (s, bold) is the font
\* loaded at pixel size s with that bold flag, and a lookup for (s, bold)
\* returns a font of pixel size s.
C18_CacheKeys ==
    /\ \A key \in DOMAIN font_cache :
           font_cache[key] = InstalledFont(key[1], key[2])
    /\ looked_up # <<>> => looked_up[2] = InstalledFont(looked_up[1][1], looked_up[1][2])

\* ========================================================================
\* Claims about dim_color and blend_color
\* ========================================================================
\* The real number num / den truncated toward zero, by its definition: the
\* integer of largest magnitude between 0 and num / den
Truncated(num, den) ==
    CHOOSE q \in (0 - 3 * 255)..(3 * 255) :
        IF num >= 0 THEN q * den <= num /\ num < (q + 1) * den
        ELSE q * den >= num /\ num > (q - 1) * den

\* C20: for channels in 0..255 and every factor, dim_color returns each
\* channel as the truncated product channel * factor, blend_color returns
\* each channel as the truncated interpolation c1 + (c2 - c1) * factor, and
\* every returned channel lies in 0..255.
C20_ColorChannels ==
    \A k \in 1..3 :
        /\ color_call = "dim_color" =>
               color_out[k] = Truncated(color_in[1][k] * color_in[3], FactorDen)
        /\ color_call = "blend_color" =>
               color_out[k] =
                   Truncated(color_in[1][k] * FactorDen
                               + (color_in[2][k] - color_in[1][k]) * color_in[3],
                             FactorDen)
        /\ color_call # "" => color_out[k] \in 0..255

\* ========================================================================
\* Claims about degenerate ranges
\* ========================================================================
\* C21: when all values are equal, sparkline and candlestick scaling use a
\* range of 1 (candlestick: min - 0.5 to max + 0.5 before the margin); a
\* gauge whose max is not above its min yields percent 0; no division by
\* zero occurs for any data values.
C21_UnitRange ==
    scale_call # "" =>
        /\ scale_out.error = "none"
        /\ (scale_call = "draw_sparkline" /\ Len(scale_data) >= 2
              /\ MinOf(scale_data) = MaxOf(scale_data)) =>
               scale_out.range = FloatUnit
        /\ (scale_call = "candlestick" /\ MinOf(scale_data) = MaxOf(scale_data)) =>
               /\ 2 * scale_out.lo = 2 * MinOf(scale_data) - FloatUnit
               /\ 2 * scale_out.hi = 2 * MaxOf(scale_data) + FloatUnit
        /\ (scale_call = "gauge" /\ gauge_range[2] <= gauge_range[1]) =>
               scale_out.ys[1][1] = 0

\* ========================================================================
\* Claims about the percent of bars
\* ========================================================================
\* C30: for every numeric entity value and every configured target or
\* range, the percent that GaugeWidget, ProgressWidget, MultiProgressWidget
\* and MediaWidget pass to draw_bar lies within 0..100.
C30_PercentRange ==
    (pct_call # "" /\ pct_out.drawn) =>
        /\ 0 <= pct_out.percent[1]
        /\ pct_out.percent[1] <= 100 * pct_out.percent[2]

\* ========================================================================
\* Claims about what a render depends on
\* ========================================================================
\* The drawing a widget just built from the configuration makes of a snapshot
FirstRender(config, snap) ==
    IF config.kind = "gauge" THEN GaugeRenderOf(NewWidget(config), snap)[2]
    ELSE IF config.kind = "progress" THEN ProgressRenderOf(NewWidget(config), snap)[2]
    ELSE FullscreenRenderOf(NewWidget(config), snap)[2]

\* C22: a widget's rendered output depends only on its configuration and
\* the snapshot of that render: whatever renders came before, the draw
\* calls are those of a first render of the same configuration against the
\* same snapshot.
C22_SnapshotOnly ==
    wout # <<>> => wout = FirstRender(wconfig, snapshot)

\* ------------------------------------------------------------------------
\* Claims about the coordinator's screens
\* ------------------------------------------------------------------------
\* C23: current_screen is 0 when there are no layouts and otherwise
\* 0 <= current_screen < screen_count, whatever calls of async_set_screen
\* (any integer), next, previous, update_options and refreshes came before
C23_ScreenInRange ==
    IF layouts = 0 THEN current_screen = 0
    ELSE 0 <= current_screen /\ current_screen < layouts

\* The last of the largest number of screens is shown after a refresh
C23_Witness ==
    /\ layouts = MaxScreens /\ current_screen = MaxScreens - 1
    /\ last_image = <<<<"screen", MaxScreens - 1>>>>

\* The screen after cur among screen_count screens, without arithmetic
After(cur, screen_count) == IF cur = screen_count - 1 THEN 0 ELSE cur + 1

\* The screen before cur among screen_count screens
Before(cur, screen_count) == IF cur = 0 THEN screen_count - 1 ELSE cur - 1

\* NextScreen applied count times
RECURSIVE NextTimes(_, _, _)
NextTimes(count, cur, screen_count) ==
    IF count = 0 THEN cur
    ELSE NextTimes(count - 1, NextScreen(cur, screen_count), screen_count)

\* next then previous, previous then next and screen_count times next all
\* come back to the current screen
RoundTrips ==
    layouts > 0 =>
        /\ PrevScreen(NextScreen(current_screen, layouts), layouts) = current_screen
        /\ NextScreen(PrevScreen(current_screen, layouts), layouts) = current_screen
        /\ NextTimes(layouts, current_screen, layouts) = current_screen

\* A step of async_next_screen goes to the screen after, or nowhere
NextStep ==
    CoordNextScreen =>
        IF layouts = 0 THEN UNCHANGED vars
        ELSE current_screen' = After(current_screen, layouts)

\* A step of async_previous_screen goes to the screen before, or nowhere
PreviousStep ==
    CoordPreviousScreen =>
        IF layouts = 0 THEN UNCHANGED vars
        ELSE current_screen' = Before(current_screen, layouts)

\* C24: async_next_screen goes to (current_screen + 1) mod screen_count and
\* async_previous_screen to (current_screen - 1) mod screen_count; one after
\* the other restores the screen, screen_count times next comes back to the
\* start, and with no screens both do nothing
C24_NextPrevious == []RoundTrips /\ [][NextStep]_vars /\ [][PreviousStep]_vars

\* A screen switch at a later time ended on the last of several screens
C24_Witness ==
    /\ layouts > 1 /\ current_screen = layouts - 1
    /\ last_screen_change = clock /\ clock > 0

\* A refresh advances by one and restarts the timer exactly when cycling
\* is on, there are several screens and the interval has passed
RefreshStep ==
    CoordRefresh =>
        IF /\ options.cycle_interval > 0 /\ layouts > 1
           /\ clock >= last_screen_change + options.cycle_interval
        THEN /\ current_screen' = After(current_screen, layouts)
             /\ last_screen_change' = clock
        ELSE UNCHANGED <<current_screen, last_screen_change>>

\* A manual switch to an existing screen restarts the timer, and the timer
\* never goes back
ManualStep ==
    /\ \A screen_index \in 0..(layouts - 1) :
        SetScreen(screen_index) => last_screen_change' = clock
    /\ last_screen_change' >= last_screen_change

\* C25: a refresh advances the screen by one modulo screen_count iff the
\* cycle interval is positive, there is more than one screen and the
\* interval has passed since the last screen change; the advance and a
\* manual async_set_screen restart that timer, so no advance comes sooner
\* than one interval after a manual switch
C25_AutoCycle == [][RefreshStep]_vars /\ [][ManualStep]_vars

\* A refresh has just advanced the screen, one interval after the last change
C25_Witness ==
    /\ refresh_pc = "upload" /\ options.cycle_interval = MaxCycle
    /\ last_screen_change = MaxCycle /\ clock = MaxCycle
    /\ current_screen = 1 /\ last_image = <<<<"screen", 1>>>>

\* No refresh has got as far as rendering
NothingRendered == refresh_pc = "idle" /\ update_result = ""

\* Only a refresh that renders changes last_image, to the PNG of its
\* frame, and it does so before the upload
StoreStep ==
    /\ last_image' # last_image => CoordRefresh /\ refresh_pc' = "upload"
    /\ CoordRefresh /\ refresh_pc' = "upload" =>
        last_image' = <<Frame(current_screen', layouts)>>

\* The end of the upload, failed or not, keeps the image and the screen
UploadStep == CoordUpload => UNCHANGED <<last_image, current_screen>>

\* camera_image returns last_image
CameraStep == CameraImage => camera_out'[2] = last_image

\* C26: last_image is None until a refresh has rendered, then the PNG of
\* the frame of the latest refresh that rendered, stored before the upload;
\* a failed upload leaves last_image and the auto-cycled screen alone, and
\* camera_image returns exactly last_image
C26_LastImage ==
    /\ [](NothingRendered => last_image = <<>>)
    /\ [][StoreStep]_vars /\ [][UploadStep]_vars /\ [][CameraStep]_vars

\* The upload failed after a refresh cycled to screen 1, and the camera
\* shows the frame of that refresh
C26_Witness ==
    /\ refresh_pc = "idle" /\ update_result = "UpdateFailed"
    /\ last_screen_change = clock /\ clock > 0 /\ current_screen = 1
    /\ last_image = <<<<"screen", 1>>>> /\ camera_out = <<"returned", last_image>>

\* ------------------------------------------------------------------------
\* Claims about the options flow
\* ------------------------------------------------------------------------
\* The slots 0 .. count - 1 in increasing order
SlotsInOrder(count) == [p \in 1..count |-> p - 1]

\* No two widgets of the list are in one slot
OnePerSlot(widgets) ==
    \A p, q \in 1..Len(widgets) : p # q => widgets[p].slot # widgets[q].slot

\* The step that ends a slot walk: _finish_screen_config has run
WalkEnds ==
    /\ flow_step \in {"configure_slot", "widget_options"}
    /\ flow_step' = "manage_screens"

\* While the walk goes on, the forms shown so far are those of slots
\* 0 .. current_slot, and current_slot is a slot of the layout
Walking ==
    flow_step \in {"configure_slot", "widget_options"} =>
        /\ current_slot < SlotCount(screen_config.layout)
        /\ slot_forms = SlotsInOrder(current_slot + 1)

\* At the end of the walk every slot's form was shown once, in order, and
\* the screen saved has one widget per slot at most, all in slots of the
\* layout
WalkDone ==
    WalkEnds =>
        /\ slot_forms = SlotsInOrder(SlotCount(screen_config'.layout))
        /\ current_slot' = SlotCount(screen_config'.layout)
        /\ \E p \in 1..Len(flow_options'.screens) :
            flow_options'.screens[p] = screen_config'
        /\ OnePerSlot(screen_config'.widgets)
        /\ \A p \in 1..Len(screen_config'.widgets) :
            /\ screen_config'.widgets[p].slot >= 0
            /\ screen_config'.widgets[p].slot < SlotCount(screen_config'.layout)

\* C27: when the options flow has finished configuring a screen, the slot
\* walk has visited slots 0 .. slot_count - 1 in increasing order once each
\* and ended, the saved screen has at most one widget per slot, and every
\* widget kept after a layout change or added in the walk has
\* slot < slot_count of the chosen layout
C27_SlotWalk == []Walking /\ [][WalkDone]_vars

\* An edited screen was saved with a widget in each slot of the layout
C27_Witness ==
    /\ flow_step = "manage_screens" /\ editing_screen
    /\ screen_config = ScreenConfig("split", <<WidgetEntry("clock", 0), WidgetEntry("clock", 1)>>)
    /\ flow_options.screens[current_screen_index + 1] = screen_config

\* The number of screens the flow works on
FlowScreenCount == Len(flow_options.screens)

\* The stored options and the options of an open flow have a screen
ScreensKept ==
    /\ Len(MigrateOptions(entry_options).screens) >= 1
    /\ flow_step # "none" => FlowScreenCount >= 1

\* The delete form comes up only with more than one screen; the end of a
\* walk adds one screen after "add" and none after "edit"; the delete form
\* takes one screen away or none; no other step of an open flow changes
\* the number of screens
CountStep ==
    /\ flow_step' = "delete_screen" => FlowScreenCount > 1
    /\ WalkEnds =>
        FlowScreenCount' = IF editing_screen THEN FlowScreenCount ELSE FlowScreenCount + 1
    /\ flow_step = "delete_screen" /\ flow_step' = "manage_screens" =>
        \/ FlowScreenCount' = FlowScreenCount - 1
        \/ UNCHANGED flow_options
    /\ /\ flow_step \notin {"none", "delete_screen"} /\ flow_step' # "none"
       /\ ~WalkEnds
       => FlowScreenCount' = FlowScreenCount

\* C28: from options with at least one screen, the list of screens never
\* becomes empty in the options flow: delete is possible only with more
\* than one screen, add makes one screen more, edit leaves the number, a
\* confirmed delete makes one less
C28_ScreensKept == []ScreensKept /\ [][CountStep]_vars

\* Back at the menu with one screen left after the second one was picked
C28_Witness ==
    /\ flow_step = "manage_screens" /\ FlowScreenCount = 1
    /\ current_screen_index = 1

\* The stored options change only when the flow creates an entry
StoredStep ==
    entry_options' # entry_options => FlowManageDone \/ FlowGlobalSubmit

\* C29: additions, edits and deletions of screens in the options flow leave
\* the stored options of the config entry as they were until the flow
\* creates an entry; an abandoned flow has no effect on them
C29_StoredUntouched == [][StoredStep]_vars

====
